---- MODULE Spec2Model ----
(***************************************************************************)
(* A model of the PARSEC core of maqi/parsec: the binary meta-voting state *)
(* machine (meta_voting/meta_vote.rs), the gossip event graph              *)
(* (gossip/event.rs) and the network simulator (dev_utils/network.rs).     *)
(***************************************************************************)
EXTENDS Integers, Sequences, FiniteSets, TLC

VARIABLES
    votes,      \* peer -> [ver, vec]: the meta-vote vector at the peer's latest event,
                \* and how many times the vector has changed along the peer's events
    known,      \* peer -> peer -> [ver, vec]: the vector at the other's latest event
                \* among the ancestors of the peer's latest event
    coin,       \* round -> bool for the rounds whose common coin has been tossed
    last,       \* the arguments of the latest call of MetaVote::next and its caller
    turn,       \* the peer the simulator's LocalStep handles next
    events,     \* the gossip graph of our peer: the events it holds (their hashes are the keys)
    peer_list,  \* the ids of the peers in our peer's PeerList
    outcome,    \* the call of Event::new or Event::unpack that has returned and whose
                \* result the caller has not handled yet
    fin,        \* the pure function under test and its arguments
    fout,       \* its result, once it has returned
    msg_queue,  \* Network::msg_queue: peer -> the messages queued for it, in order
    running,    \* the peers for which Peer::is_running() holds
    local_step, \* the step of the next ScheduleEvent::LocalStep
    posted,     \* every message handed to send_message so far, in order
    handled,    \* every message handled so far: by which peer and at which step
    stepped     \* the peers that took their turn in the latest LocalStep

mvVars == <<votes, known, coin, last, turn>>
evVars == <<events, peer_list, outcome>>
fnVars == <<fin, fout>>
netVars == <<msg_queue, running, local_step, posted, handled, stepped>>
vars == <<votes, known, coin, last, turn, events, peer_list, outcome, fin, fout,
          msg_queue, running, local_step, posted, handled, stepped>>

(***************************************************************************)
(* Bounds of the model.                                                    *)
(***************************************************************************)
MaxSteps == 4

(***************************************************************************)
(* The voters, in id order.  Fewer than one third of them are faulty: the  *)
(* faulty peer may stay silent for any number of its turns.                *)
(***************************************************************************)
PeerSeq == <<"a", "b", "c", "d">>
AllPeers == {PeerSeq[i] : i \in 1..Len(PeerSeq)}
total_peers == Cardinality(AllPeers)
Faulty == {"c"}

(***************************************************************************)
(* Option<bool> is a set holding at most one boolean, BoolSet a subset of  *)
(* BOOLEAN.                                                                *)
(***************************************************************************)
None == {}
Some(b) == {b}
from_bool(b) == {b}
Last(s) == s[Len(s)]
MaxOf(S) == CHOOSE x \in S : \A y \in S : y <= x

Steps == <<"ForcedTrue", "ForcedFalse", "GenuineFlip">>

\* MetaVote::default() with the given estimates (MetaVote::new, lines 78-79)
initial_meta_vote(initial_estimate) ==
    [round |-> 0, step |-> "ForcedTrue", estimates |-> from_bool(initial_estimate),
     bin_values |-> {}, aux_value |-> None, decision |-> None]

(***************************************************************************)
(* MetaVoteCounts: the votes of the others for the (round, step) of the    *)
(* given vote, the given vote included.  `others` is a sequence of vectors.*)
(***************************************************************************)
matching(vec, vote) ==
    LET I == {i \in 1..Len(vec) :
                 vec[i].round = vote.round /\ vec[i].step = vote.step}
    IN  IF I = {} THEN <<>> ELSE <<vec[MaxOf(I)]>>

counted(parent, others) ==
    LET RECURSIVE go(_)
        go(i) == IF i > Len(others) THEN <<parent>>
                 ELSE matching(others[i], parent) \o go(i + 1)
    IN  go(1)

count_of(vs, P(_)) == Cardinality({i \in 1..Len(vs) : P(vs[i])})

first_decision(vs) ==
    LET I == {i \in 1..Len(vs) : vs[i].decision # None}
    IN  IF I = {} THEN None
        ELSE vs[CHOOSE i \in I : \A j \in I : i <= j].decision

MetaVoteCounts_new(parent, others, total) ==
    LET vs == counted(parent, others)
        HasEstT(v) == TRUE \in v.estimates
        HasEstF(v) == FALSE \in v.estimates
        HasBinT(v) == TRUE \in v.bin_values
        HasBinF(v) == FALSE \in v.bin_values
        AuxT(v) == v.aux_value = Some(TRUE)
        AuxF(v) == v.aux_value = Some(FALSE)
    IN  [estimates_true |-> count_of(vs, HasEstT),
         estimates_false |-> count_of(vs, HasEstF),
         bin_values_true |-> count_of(vs, HasBinT),
         bin_values_false |-> count_of(vs, HasBinF),
         aux_values_true |-> count_of(vs, AuxT),
         aux_values_false |-> count_of(vs, AuxF),
         decision |-> first_decision(vs),
         total_peers |-> total]

aux_values_set(counts) == counts.aux_values_true + counts.aux_values_false
is_supermajority(counts, count) == 3 * count > 2 * counts.total_peers
at_least_one_third(counts, count) == 3 * count >= counts.total_peers

(***************************************************************************)
(* MetaVote (meta_voting/meta_vote.rs).  The calculate_* functions mutate  *)
(* the vote and the counts: here each maps the pair mc = [mv, counts] to   *)
(* the pair after the call.                                                *)
(***************************************************************************)
get(coin_tosses, round) ==
    IF round \in DOMAIN coin_tosses THEN Some(coin_tosses[round]) ELSE None

TheOne(opt) == CHOOSE b \in opt : TRUE

\* mutant: a value joins the estimates only on a supermajority
calculate_new_estimates_supermajority(mc, coin_toss) ==
    IF mc.mv.estimates = {}
    THEN IF coin_toss # None
         THEN [mv |-> [mc.mv EXCEPT !.estimates = from_bool(TheOne(coin_toss))],
               counts |-> mc.counts]
         ELSE mc
    ELSE LET mv1 == IF is_supermajority(mc.counts, mc.counts.estimates_true)
                    THEN [mc.mv EXCEPT !.estimates = @ \cup {TRUE}] ELSE mc.mv
             mv2 == IF is_supermajority(mc.counts, mc.counts.estimates_false)
                    THEN [mv1 EXCEPT !.estimates = @ \cup {FALSE}] ELSE mv1
         IN  [mv |-> mv2, counts |-> mc.counts]

calculate_new_estimates(mc, coin_toss) ==
    IF mc.mv.estimates = {}
    THEN IF coin_toss # None
         THEN LET toss == TheOne(coin_toss)
              IN  [mv |-> [mc.mv EXCEPT !.estimates = from_bool(toss)],
                   counts |-> IF toss
                              THEN [mc.counts EXCEPT !.estimates_true = @ + 1]
                              ELSE [mc.counts EXCEPT !.estimates_false = @ + 1]]
         ELSE mc
    ELSE LET addT == at_least_one_third(mc.counts, mc.counts.estimates_true)
                         /\ TRUE \notin mc.mv.estimates
             mv1 == IF at_least_one_third(mc.counts, mc.counts.estimates_true)
                    THEN [mc.mv EXCEPT !.estimates = @ \cup {TRUE}] ELSE mc.mv
             c1 == IF addT THEN [mc.counts EXCEPT !.estimates_true = @ + 1]
                   ELSE mc.counts
             addF == at_least_one_third(c1, c1.estimates_false)
                         /\ FALSE \notin mv1.estimates
             mv2 == IF at_least_one_third(c1, c1.estimates_false)
                    THEN [mv1 EXCEPT !.estimates = @ \cup {FALSE}] ELSE mv1
             c2 == IF addF THEN [c1 EXCEPT !.estimates_false = @ + 1] ELSE c1
         IN  [mv |-> mv2, counts |-> c2]

\* mutant: a third of the peers is enough for a bin value
calculate_new_bin_values_one_third(mc) ==
    LET mv1 == IF at_least_one_third(mc.counts, mc.counts.estimates_true)
               THEN [mc.mv EXCEPT !.bin_values = @ \cup {TRUE}] ELSE mc.mv
        mv2 == IF at_least_one_third(mc.counts, mc.counts.estimates_false)
               THEN [mv1 EXCEPT !.bin_values = @ \cup {FALSE}] ELSE mv1
    IN  [mv |-> mv2, counts |-> mc.counts]

\* mutant: a new bin value replaces the old ones
calculate_new_bin_values_replace(mc) ==
    LET mv1 == IF is_supermajority(mc.counts, mc.counts.estimates_true)
                   /\ TRUE \notin mc.mv.bin_values
               THEN [mc.mv EXCEPT !.bin_values = {TRUE}] ELSE mc.mv
        mv2 == IF is_supermajority(mc.counts, mc.counts.estimates_false)
                   /\ FALSE \notin mv1.bin_values
               THEN [mv1 EXCEPT !.bin_values = {FALSE}] ELSE mv1
    IN  [mv |-> mv2, counts |-> mc.counts]

calculate_new_bin_values(mc) ==
    LET addT == is_supermajority(mc.counts, mc.counts.estimates_true)
                    /\ TRUE \notin mc.mv.bin_values
        mv1 == IF is_supermajority(mc.counts, mc.counts.estimates_true)
               THEN [mc.mv EXCEPT !.bin_values = @ \cup {TRUE}] ELSE mc.mv
        c1 == IF addT THEN [mc.counts EXCEPT !.bin_values_true = @ + 1]
              ELSE mc.counts
        addF == is_supermajority(c1, c1.estimates_false)
                    /\ FALSE \notin mv1.bin_values
        mv2 == IF is_supermajority(c1, c1.estimates_false)
               THEN [mv1 EXCEPT !.bin_values = @ \cup {FALSE}] ELSE mv1
        c2 == IF addF THEN [c1 EXCEPT !.bin_values_false = @ + 1] ELSE c1
    IN  [mv |-> mv2, counts |-> c2]

\* calculate_new_auxiliary_value taking true for any single bin value
calculate_new_auxiliary_value_true(mc, bin_values_was_empty) ==
    IF mc.mv.aux_value # None THEN mc
    ELSE IF ~bin_values_was_empty THEN mc
    ELSE IF Cardinality(mc.mv.bin_values) = 1
         THEN IF TRUE \in mc.mv.bin_values
              THEN [mv |-> [mc.mv EXCEPT !.aux_value = Some(TRUE)],
                    counts |-> [mc.counts EXCEPT !.aux_values_true = @ + 1]]
              ELSE [mv |-> [mc.mv EXCEPT !.aux_value = Some(TRUE)],
                    counts |-> [mc.counts EXCEPT !.aux_values_true = @ + 1]]
    ELSE IF Cardinality(mc.mv.bin_values) = 2
         THEN [mv |-> [mc.mv EXCEPT !.aux_value = Some(TRUE)],
               counts |-> [mc.counts EXCEPT !.aux_values_true = @ + 1]]
    ELSE mc

\* mutant: the aux value follows bin_values at every update
calculate_new_auxiliary_value_again(mc, bin_values_was_empty) ==
    IF Cardinality(mc.mv.bin_values) = 1
    THEN IF TRUE \in mc.mv.bin_values
         THEN [mv |-> [mc.mv EXCEPT !.aux_value = Some(TRUE)],
               counts |-> [mc.counts EXCEPT !.aux_values_true = @ + 1]]
         ELSE [mv |-> [mc.mv EXCEPT !.aux_value = Some(FALSE)],
               counts |-> [mc.counts EXCEPT !.aux_values_false = @ + 1]]
    ELSE IF Cardinality(mc.mv.bin_values) = 2
         THEN [mv |-> [mc.mv EXCEPT !.aux_value = Some(TRUE)],
               counts |-> [mc.counts EXCEPT !.aux_values_true = @ + 1]]
    ELSE mc

calculate_new_auxiliary_value(mc, bin_values_was_empty) ==
    IF mc.mv.aux_value # None THEN mc
    ELSE IF ~bin_values_was_empty THEN mc
    ELSE IF Cardinality(mc.mv.bin_values) = 1
         THEN IF TRUE \in mc.mv.bin_values
              THEN [mv |-> [mc.mv EXCEPT !.aux_value = Some(TRUE)],
                    counts |-> [mc.counts EXCEPT !.aux_values_true = @ + 1]]
              ELSE [mv |-> [mc.mv EXCEPT !.aux_value = Some(FALSE)],
                    counts |-> [mc.counts EXCEPT !.aux_values_false = @ + 1]]
    ELSE IF Cardinality(mc.mv.bin_values) = 2
         THEN [mv |-> [mc.mv EXCEPT !.aux_value = Some(TRUE)],
               counts |-> [mc.counts EXCEPT !.aux_values_true = @ + 1]]
    ELSE mc

\* mutant: a forced step decides once enough aux values of either kind are counted
opt_decision_any_aux(meta_vote, counts) ==
    CASE meta_vote.step = "ForcedTrue" ->
             IF TRUE \in meta_vote.bin_values
                    /\ is_supermajority(counts, aux_values_set(counts))
             THEN Some(TRUE) ELSE counts.decision
      [] meta_vote.step = "ForcedFalse" ->
             IF FALSE \in meta_vote.bin_values
                    /\ is_supermajority(counts, aux_values_set(counts))
             THEN Some(FALSE) ELSE counts.decision
      [] meta_vote.step = "GenuineFlip" -> counts.decision

\* mutant: a forced step decides on its bin_values alone
opt_decision_bin_values(meta_vote, counts) ==
    CASE meta_vote.step = "ForcedTrue" ->
             IF TRUE \in meta_vote.bin_values THEN Some(TRUE) ELSE counts.decision
      [] meta_vote.step = "ForcedFalse" ->
             IF FALSE \in meta_vote.bin_values THEN Some(FALSE) ELSE counts.decision
      [] meta_vote.step = "GenuineFlip" -> counts.decision

\* the match of calculate_new_decision (lines 281-297)
opt_decision(meta_vote, counts) ==
    CASE meta_vote.step = "ForcedTrue" ->
             IF TRUE \in meta_vote.bin_values
                    /\ is_supermajority(counts, counts.aux_values_true)
             THEN Some(TRUE) ELSE counts.decision
      [] meta_vote.step = "ForcedFalse" ->
             IF FALSE \in meta_vote.bin_values
                    /\ is_supermajority(counts, counts.aux_values_false)
             THEN Some(FALSE) ELSE counts.decision
      [] meta_vote.step = "GenuineFlip" -> counts.decision

\* mutant: a decision is recorded without collapsing the other fields
calculate_new_decision_keep(meta_vote, counts) ==
    LET opt == opt_decision(meta_vote, counts)
    IN  IF opt # None THEN [meta_vote EXCEPT !.decision = opt] ELSE meta_vote

calculate_new_decision(meta_vote, counts) ==
    LET opt == opt_decision(meta_vote, counts)
    IN  IF opt # None
        THEN [meta_vote EXCEPT !.estimates = from_bool(TheOne(opt)),
                               !.bin_values = from_bool(TheOne(opt)),
                               !.aux_value = opt,
                               !.decision = opt]
        ELSE meta_vote

update_meta_vote(meta_vote, counts, coin_tosses) ==
    IF meta_vote.decision # None THEN meta_vote
    ELSE LET coin_toss == get(coin_tosses, meta_vote.round)
             m1 == calculate_new_estimates([mv |-> meta_vote, counts |-> counts],
                                           coin_toss)
             bin_values_was_empty == m1.mv.bin_values = {}
             m2 == calculate_new_bin_values(m1)
             m3 == calculate_new_auxiliary_value(m2, bin_values_was_empty)
         IN  calculate_new_decision(m3.mv, m3.counts)

\* increase_step clearing the estimates after ForcedTrue as well when no
\* supermajority of the aux values is there
increase_step_wait_at_forced_true(new_meta_vote, counts, coin_toss) ==
    LET cleared == [new_meta_vote EXCEPT !.bin_values = {}, !.aux_value = None]
    IN  CASE new_meta_vote.step = "ForcedTrue" ->
                 [cleared EXCEPT
                    !.estimates =
                        IF is_supermajority(counts, counts.aux_values_false)
                        THEN from_bool(FALSE)
                        ELSE IF ~is_supermajority(counts, counts.aux_values_true)
                        THEN {}
                        ELSE @,
                    !.step = "ForcedFalse"]
          [] new_meta_vote.step = "ForcedFalse" ->
                 [cleared EXCEPT
                    !.estimates =
                        IF is_supermajority(counts, counts.aux_values_true)
                        THEN from_bool(TRUE)
                        ELSE IF ~is_supermajority(counts, counts.aux_values_false)
                        THEN from_bool(FALSE)
                        ELSE @,
                    !.step = "GenuineFlip"]
          [] new_meta_vote.step = "GenuineFlip" ->
                 [cleared EXCEPT
                    !.estimates =
                        IF is_supermajority(counts, counts.aux_values_true)
                        THEN from_bool(TRUE)
                        ELSE IF is_supermajority(counts, counts.aux_values_false)
                        THEN from_bool(FALSE)
                        ELSE IF coin_toss # None
                        THEN from_bool(TheOne(coin_toss))
                        ELSE {},
                    !.step = "ForcedTrue",
                    !.round = @ + 1]

\* mutant: after GenuineFlip an available coin toss goes before the aux values
increase_step_coin_first(new_meta_vote, counts, coin_toss) ==
    LET cleared == [new_meta_vote EXCEPT !.bin_values = {}, !.aux_value = None]
    IN  CASE new_meta_vote.step = "ForcedTrue" ->
                 [cleared EXCEPT
                    !.estimates =
                        IF is_supermajority(counts, counts.aux_values_false)
                        THEN from_bool(FALSE)
                        ELSE IF ~is_supermajority(counts, counts.aux_values_true)
                        THEN from_bool(TRUE)
                        ELSE @,
                    !.step = "ForcedFalse"]
          [] new_meta_vote.step = "ForcedFalse" ->
                 [cleared EXCEPT
                    !.estimates =
                        IF is_supermajority(counts, counts.aux_values_true)
                        THEN from_bool(TRUE)
                        ELSE IF ~is_supermajority(counts, counts.aux_values_false)
                        THEN from_bool(FALSE)
                        ELSE @,
                    !.step = "GenuineFlip"]
          [] new_meta_vote.step = "GenuineFlip" ->
                 [cleared EXCEPT
                    !.estimates =
                        IF coin_toss # None
                        THEN from_bool(TheOne(coin_toss))
                        ELSE IF is_supermajority(counts, counts.aux_values_true)
                        THEN from_bool(TRUE)
                        ELSE IF is_supermajority(counts, counts.aux_values_false)
                        THEN from_bool(FALSE)
                        ELSE {},
                    !.step = "ForcedTrue",
                    !.round = @ + 1]

\* mutant: the forced steps hand their estimates on unchanged
increase_step_keep_estimates(new_meta_vote, counts, coin_toss) ==
    LET cleared == [new_meta_vote EXCEPT !.bin_values = {}, !.aux_value = None]
    IN  CASE new_meta_vote.step = "ForcedTrue" -> [cleared EXCEPT !.step = "ForcedFalse"]
          [] new_meta_vote.step = "ForcedFalse" -> [cleared EXCEPT !.step = "GenuineFlip"]
          [] new_meta_vote.step = "GenuineFlip" ->
                 [cleared EXCEPT
                    !.estimates =
                        IF is_supermajority(counts, counts.aux_values_true)
                        THEN from_bool(TRUE)
                        ELSE IF is_supermajority(counts, counts.aux_values_false)
                        THEN from_bool(FALSE)
                        ELSE IF coin_toss # None
                        THEN from_bool(TheOne(coin_toss))
                        ELSE {},
                    !.step = "ForcedTrue",
                    !.round = @ + 1]

\* mutant: the round is not increased after GenuineFlip
increase_step_same_round(new_meta_vote, counts, coin_toss) ==
    LET cleared == [new_meta_vote EXCEPT !.bin_values = {}, !.aux_value = None]
    IN  CASE new_meta_vote.step = "ForcedTrue" -> [cleared EXCEPT !.step = "ForcedFalse"]
          [] new_meta_vote.step = "ForcedFalse" -> [cleared EXCEPT !.step = "GenuineFlip"]
          [] new_meta_vote.step = "GenuineFlip" -> [cleared EXCEPT !.step = "ForcedTrue"]

increase_step(new_meta_vote, counts, coin_toss) ==
    LET cleared == [new_meta_vote EXCEPT !.bin_values = {}, !.aux_value = None]
    IN  CASE new_meta_vote.step = "ForcedTrue" ->
                 [cleared EXCEPT
                    !.estimates =
                        IF is_supermajority(counts, counts.aux_values_false)
                        THEN from_bool(FALSE)
                        ELSE IF ~is_supermajority(counts, counts.aux_values_true)
                        THEN from_bool(TRUE)
                        ELSE @,
                    !.step = "ForcedFalse"]
          [] new_meta_vote.step = "ForcedFalse" ->
                 [cleared EXCEPT
                    !.estimates =
                        IF is_supermajority(counts, counts.aux_values_true)
                        THEN from_bool(TRUE)
                        ELSE IF ~is_supermajority(counts, counts.aux_values_false)
                        THEN from_bool(FALSE)
                        ELSE @,
                    !.step = "GenuineFlip"]
          [] new_meta_vote.step = "GenuineFlip" ->
                 [cleared EXCEPT
                    !.estimates =
                        IF is_supermajority(counts, counts.aux_values_true)
                        THEN from_bool(TRUE)
                        ELSE IF is_supermajority(counts, counts.aux_values_false)
                        THEN from_bool(FALSE)
                        ELSE IF coin_toss # None
                        THEN from_bool(TheOne(coin_toss))
                        ELSE {},
                    !.step = "ForcedTrue",
                    !.round = @ + 1]

\* mutant: the step is increased once a third of the peers have an aux value
next_meta_vote_one_third(parent, others, coin_tosses, total) ==
    IF parent = <<>> THEN <<>>
    ELSE IF parent[1].decision # None THEN <<>>
    ELSE LET counts == MetaVoteCounts_new(parent[1], others, total)
         IN  IF at_least_one_third(counts, aux_values_set(counts))
             THEN <<increase_step(parent[1], counts,
                                  get(coin_tosses, parent[1].round))>>
             ELSE <<>>

\* mutant: the step is increased from a decided vote as well
next_meta_vote_from_decided(parent, others, coin_tosses, total) ==
    IF parent = <<>> THEN <<>>
    ELSE LET counts == MetaVoteCounts_new(parent[1], others, total)
         IN  IF is_supermajority(counts, aux_values_set(counts))
             THEN <<increase_step(parent[1], counts,
                                  get(coin_tosses, parent[1].round))>>
             ELSE <<>>

\* Option<MetaVote>: the empty sequence, or the sequence of the one vote
next_meta_vote(parent, others, coin_tosses, total) ==
    IF parent = <<>> THEN <<>>
    ELSE IF parent[1].decision # None THEN <<>>
    ELSE LET counts == MetaVoteCounts_new(parent[1], others, total)
         IN  IF is_supermajority(counts, aux_values_set(counts))
             THEN <<increase_step(parent[1], counts,
                                  get(coin_tosses, parent[1].round))>>
             ELSE <<>>

\* mutant: the loop goes on after a decided vote
RECURSIVE update_parent_no_break(_, _, _, _, _)
update_parent_no_break(parent, i, others, coin_tosses, total) ==
    IF i > Len(parent) THEN <<>>
    ELSE LET counts == MetaVoteCounts_new(parent[i], others, total)
             updated == update_meta_vote(parent[i], counts, coin_tosses)
         IN  <<updated>> \o update_parent_no_break(parent, i + 1, others, coin_tosses, total)

\* the first loop of MetaVote::next (lines 157-166)
RECURSIVE update_parent(_, _, _, _, _)
update_parent(parent, i, others, coin_tosses, total) ==
    IF i > Len(parent) THEN <<>>
    ELSE LET counts == MetaVoteCounts_new(parent[i], others, total)
             updated == update_meta_vote(parent[i], counts, coin_tosses)
         IN  IF updated.decision # None THEN <<updated>>
             ELSE <<updated>> \o update_parent(parent, i + 1, others, coin_tosses, total)

\* the second loop of MetaVote::next (lines 168-172)
RECURSIVE push_next(_, _, _, _)
push_next(nxt, others, coin_tosses, total) ==
    LET lastv == IF nxt = <<>> THEN <<>> ELSE <<Last(nxt)>>
        nmv == next_meta_vote(lastv, others, coin_tosses, total)
    IN  IF nmv = <<>> THEN nxt
        ELSE push_next(nxt \o nmv, others, coin_tosses, total)

next(parent, others, coin_tosses, total) ==
    push_next(update_parent(parent, 1, others, coin_tosses, total),
              others, coin_tosses, total)

new(initial_estimate, others, total) ==
    next(<<initial_meta_vote(initial_estimate)>>, others, <<>>, total)

(***************************************************************************)
(* The meta-votes of one election about one voter, as the events of the    *)
(* peers compute them.  A peer creates an event either on its own or on    *)
(* receiving gossip from a peer g: the new event then has the latest event *)
(* of g as other-parent and so has among its ancestors everything that     *)
(* event had.  known[h][p] is the vector at the latest event of p among    *)
(* the ancestors of the latest event of h.                                 *)
(***************************************************************************)
Rounds == 0..((MaxSteps - 1) \div 3)
NoVote == [ver |-> 0, vec |-> <<>>]
Later(x, y) == IF x.ver >= y.ver THEN x ELSE y

\* the vectors of the other peers at the events the new event of h sees: `others`
others_of(h, kn) ==
    LET ps == SelectSeq(PeerSeq, LAMBDA p : p # h)
    IN  [i \in 1..Len(ps) |-> kn[h][ps[i]].vec]

\* what an event of h with other-parent the latest event of g has as ancestors
sync(h, g) ==
    [known EXCEPT ![h] = [p \in AllPeers |->
        IF p = h THEN NoVote
        ELSE IF p = g THEN votes[g]
        ELSE Later(known[h][p], known[g][p])]]

WithinBounds(vec) == Len(vec) <= MaxSteps

bump(h, result) ==
    [votes EXCEPT ![h] = IF result = @.vec THEN @
                         ELSE [ver |-> @.ver + 1, vec |-> result]]

NoCall == [who |-> "", parent |-> <<>>, others |-> <<>>, coin_tosses |-> <<>>]

\* the peer's first event with meta-votes: MetaVote::new
NewVoteStep(h, initial_estimate, kn) ==
    /\ votes[h].vec = <<>>
    /\ known' = kn
    /\ LET result == new(initial_estimate, others_of(h, kn), total_peers)
       IN  /\ WithinBounds(result)
           /\ votes' = bump(h, result)
    /\ UNCHANGED coin

\* a later event of h: MetaVote::next on the vector of its self-parent
NextVoteStep(h, kn) ==
    /\ votes[h].vec # <<>>
    /\ known' = kn
    /\ LET result == next(votes[h].vec, others_of(h, kn), coin, total_peers)
       IN  /\ WithinBounds(result)
           /\ votes' = bump(h, result)
    /\ UNCHANGED coin

\* the common coin of a round becomes known: the same value for every peer
TossCoinStep(r, b) ==
    /\ r \notin DOMAIN coin
    /\ coin' = [x \in DOMAIN coin \cup {r} |-> IF x = r THEN b ELSE coin[x]]
    /\ UNCHANGED <<votes, known>>

\* an election before any meta vote
NoVotes ==
    /\ votes = [h \in AllPeers |-> NoVote]
    /\ known = [h \in AllPeers |-> [p \in AllPeers |-> NoVote]]
    /\ coin = <<>>
    /\ last = NoCall
    /\ turn = PeerSeq[1]

\* a gossip graph before any event, of a peer that knows only itself
\* (PeerList::new, as in event.rs tests::create_peer_list)
our_id == "Alice"
NoOutcome == [op |-> "", input |-> [kind |-> "none"], r |-> [ok |-> FALSE, error |-> "none"]]
NoEvents ==
    /\ events = {}
    /\ peer_list = {our_id}
    /\ outcome = NoOutcome

\* a network before any message (Network::new): every peer is running
NetPeerSeq == <<"Alice", "Bob", "Carol", "Dave">>
NetPeers == {NetPeerSeq[i] : i \in 1..Len(NetPeerSeq)}
NoMessages ==
    /\ msg_queue = [p \in NetPeers |-> <<>>]
    /\ running = NetPeers
    /\ local_step = 0
    /\ posted = <<>>
    /\ handled = <<>>
    /\ stepped = {}

NoInput == [fn |-> ""]
NoOutput == [done |-> FALSE]
NoCalls == fin = NoInput /\ fout = NoOutput

MVInit == NoVotes /\ NoEvents /\ NoMessages /\ NoCalls

(***************************************************************************)
(* SpecMV: the peers take turns in id order, as in the simulator's         *)
(* LocalStep (network.rs, line 554).  At its turn a peer creates an event  *)
(* on the gossip of the creator of the latest event; the faulty peer may   *)
(* let its turn pass.  The latest call of MetaVote::next is recorded with  *)
(* its arguments.                                                          *)
(***************************************************************************)
next_turn(h) ==
    LET i == CHOOSE k \in 1..Len(PeerSeq) : PeerSeq[k] = h
    IN  PeerSeq[(i % Len(PeerSeq)) + 1]

\* the ancestors of the event h creates at its turn
gossiped(h) == IF last.who = "" \/ last.who = h THEN known ELSE sync(h, last.who)

NewVote(h, initial_estimate) ==
    /\ turn = h
    /\ NewVoteStep(h, initial_estimate, gossiped(h))
    /\ last' = [who |-> h, parent |-> <<initial_meta_vote(initial_estimate)>>,
                others |-> others_of(h, gossiped(h)), coin_tosses |-> <<>>]
    /\ turn' = next_turn(h)
    /\ UNCHANGED <<evVars, fnVars, netVars>>

NextVote(h) ==
    /\ turn = h
    /\ NextVoteStep(h, gossiped(h))
    /\ last' = [who |-> h, parent |-> votes[h].vec,
                others |-> others_of(h, gossiped(h)), coin_tosses |-> coin]
    /\ turn' = next_turn(h)
    /\ UNCHANGED <<evVars, fnVars, netVars>>

Silent(h) ==
    /\ turn = h
    /\ turn' = next_turn(h)
    /\ UNCHANGED <<votes, known, coin, last>>
    /\ UNCHANGED <<evVars, fnVars, netVars>>

TossCoin(r, b) == TossCoinStep(r, b) /\ UNCHANGED <<last, turn>> /\ UNCHANGED <<evVars, fnVars, netVars>>

MVNext ==
    \/ \E h \in AllPeers, b \in BOOLEAN : NewVote(h, b)
    \/ \E h \in AllPeers : NextVote(h)
    \/ \E h \in Faulty : Silent(h)
    \/ \E r \in Rounds, b \in BOOLEAN : TossCoin(r, b)

SpecMV == MVInit /\ [][MVNext]_vars

(***************************************************************************)
(* The gossip graph (gossip/event.rs).  A hash is the digest of the        *)
(* serialised content, a signature names its signer and what was signed.   *)
(* Option<Hash> and Option<Vote> are sets holding at most one value.       *)
(***************************************************************************)
MaxEvents == 4

EvPeers == {"Alice", "Bob", "Carol"}
Transactions == {"x"}

\* gossip/cause.rs: the four causes, with the parents content.rs reads from them
Initial == [kind |-> "Initial", self_parent |-> None, other_parent |-> None, vote |-> None]
Request(self_parent, other_parent) ==
    [kind |-> "Request", self_parent |-> Some(self_parent),
     other_parent |-> Some(other_parent), vote |-> None]
Response(self_parent, other_parent) ==
    [kind |-> "Response", self_parent |-> Some(self_parent),
     other_parent |-> Some(other_parent), vote |-> None]
Observation(self_parent, vote) ==
    [kind |-> "Observation", self_parent |-> Some(self_parent),
     other_parent |-> None, vote |-> Some(vote)]

serialise(content) == <<content.creator, content.cause>>
Hash_from(data) == [digest |-> data]
sign_detached(id, data) == [signer |-> id, signed |-> data]
verify_signature(id, signature, data) == signature.signer = id /\ signature.signed = data

\* BTreeMap<Hash, Event>: the set of the events, keyed by their hash field
contains_key(evs, hash) == \E e \in evs : e.hash = hash
events_get(evs, hash) == {e \in evs : e.hash = hash}

Ok(v) == [ok |-> TRUE, value |-> v]
Err(e) == [ok |-> FALSE, error |-> e]

\* BTreeMap<P, u64> as a function from the peers that have an entry
map_insert(m, k, v) == [x \in DOMAIN m \cup {k} |-> IF x = k THEN v ELSE m[x]]
Max2(a, b) == IF a >= b THEN a ELSE b

\* the loop over peer_list.iter() that only raises the entries the
\* self-parent already has
merge_existing_entries(inherited, others, peers) ==
    [p \in DOMAIN inherited |->
        IF p \in DOMAIN others \cap peers
        THEN Max2(inherited[p], others[p])
        ELSE inherited[p]]

\* the loop taken over every entry of the other parent, in the peer list or not
merge_all_entries(inherited, others, peers) ==
    [p \in DOMAIN inherited \cup DOMAIN others |->
        IF p \in DOMAIN others
        THEN IF p \in DOMAIN inherited
             THEN Max2(inherited[p], others[p])
             ELSE others[p]
        ELSE inherited[p]]

\* the loop over peer_list.iter(): entry(peer).or_insert(other), then the max
merge_last_ancestors(inherited, others, peers) ==
    [p \in DOMAIN inherited \cup (DOMAIN others \cap peers) |->
        IF p \in DOMAIN others \cap peers
        THEN IF p \in DOMAIN inherited
             THEN Max2(inherited[p], others[p])
             ELSE others[p]
        ELSE inherited[p]]

\* the index of the self-parent, taken as it is
same_index(self_parent) == self_parent.index

\* let index = self_parent.index + 1
next_index(self_parent) == self_parent.index + 1

index_and_last_ancestors(content, evs, peers) ==
    IF content.cause.self_parent = None
    THEN Ok([index |-> 0, last_ancestors |-> map_insert(<<>>, content.creator, 0)])
    ELSE IF events_get(evs, TheOne(content.cause.self_parent)) = {}
    THEN Err("UnknownParent")
    ELSE LET self_parent == TheOne(events_get(evs, TheOne(content.cause.self_parent)))
             index == next_index(self_parent)
             inherited == self_parent.last_ancestors
         IN  IF content.cause.other_parent = None
             THEN Ok([index |-> index,
                      last_ancestors |-> map_insert(inherited, content.creator, index)])
             ELSE IF events_get(evs, TheOne(content.cause.other_parent)) = {}
             THEN Err("UnknownParent")
             ELSE LET other_parent ==
                          TheOne(events_get(evs, TheOne(content.cause.other_parent)))
                      merged == merge_last_ancestors(inherited,
                                                     other_parent.last_ancestors, peers)
                  IN  Ok([index |-> index,
                          last_ancestors |-> map_insert(merged, content.creator, index)])

Event(content, signature, ia) ==
    [content |-> content, signature |-> signature,
     hash |-> Hash_from(serialise(content)),
     index |-> ia.index, last_ancestors |-> ia.last_ancestors]

\* Event::new looking its parents up in an empty graph, as new_initial does
Event_new_empty_graph(cause, evs, peers) ==
    LET content == [creator |-> our_id, cause |-> cause]
        r == index_and_last_ancestors(content, {}, peers)
        ia == IF r.ok THEN r.value ELSE [index |-> 0, last_ancestors |-> <<>>]
    IN  Event(content, sign_detached(our_id, serialise(content)), ia)

\* Event::new taking the index and the last_ancestors from the self-parent
\* when only the other parent is missing
Event_new_self_parent_only(cause, evs, peers) ==
    LET content == [creator |-> our_id, cause |-> cause]
        r == index_and_last_ancestors(content, evs, peers)
        alone == index_and_last_ancestors(
                     [creator |-> our_id,
                      cause |-> [cause EXCEPT !.other_parent = None]], evs, peers)
        ia == IF r.ok THEN r.value
              ELSE IF alone.ok THEN alone.value
              ELSE [index |-> 0, last_ancestors |-> <<>>]
    IN  Event(content, sign_detached(our_id, serialise(content)), ia)

\* Event::new: an invalid event gets index 0 and no last_ancestors
Event_new(cause, evs, peers) ==
    LET content == [creator |-> our_id, cause |-> cause]
        r == index_and_last_ancestors(content, evs, peers)
        ia == IF r.ok THEN r.value ELSE [index |-> 0, last_ancestors |-> <<>>]
    IN  Event(content, sign_detached(our_id, serialise(content)), ia)

\* Event::unpack without the look-up of the hash among the graph's keys
unpack_no_contains_key(packed_event, evs, peers) ==
    IF ~verify_signature(packed_event.content.creator, packed_event.signature,
                         serialise(packed_event.content))
    THEN Err("SignatureFailure")
    ELSE LET r == index_and_last_ancestors(packed_event.content, evs, peers)
         IN  IF ~r.ok THEN r
             ELSE Ok(Some(Event(packed_event.content, packed_event.signature, r.value)))

\* Event::unpack falling back, as Event::new does, to index 0 and no
\* last_ancestors when a parent is missing
unpack_with_fallback(packed_event, evs, peers) ==
    IF ~verify_signature(packed_event.content.creator, packed_event.signature,
                         serialise(packed_event.content))
    THEN Err("SignatureFailure")
    ELSE IF contains_key(evs, Hash_from(serialise(packed_event.content)))
    THEN Ok(None)
    ELSE LET r == index_and_last_ancestors(packed_event.content, evs, peers)
             ia == IF r.ok THEN r.value ELSE [index |-> 0, last_ancestors |-> <<>>]
         IN  Ok(Some(Event(packed_event.content, packed_event.signature, ia)))

unpack(packed_event, evs, peers) ==
    IF ~verify_signature(packed_event.content.creator, packed_event.signature,
                         serialise(packed_event.content))
    THEN Err("SignatureFailure")
    ELSE IF contains_key(evs, Hash_from(serialise(packed_event.content)))
    THEN Ok(None)
    ELSE LET r == index_and_last_ancestors(packed_event.content, evs, peers)
         IN  IF ~r.ok THEN r
             ELSE Ok(Some(Event(packed_event.content, packed_event.signature, r.value)))

pack(event) == [content |-> event.content, signature |-> event.signature]

\* sees without the comparison of the indices: an entry for the creator is enough
sees_any_entry(event, other) == other.content.creator \in DOMAIN event.last_ancestors

\* Event::sees
sees(event, other) ==
    IF other.content.creator \in DOMAIN event.last_ancestors
    THEN event.last_ancestors[other.content.creator] >= other.index
    ELSE FALSE

our_events == {e \in events : e.content.creator = our_id}
our_last_event == CHOOSE e \in our_events : \A f \in our_events : f.index <= e.index
Hashes == {e.hash : e \in events}
UnknownHash == Hash_from(<<"nobody", Initial>>)

\* the graphs explored hold at most MaxEvents events
Room == Cardinality(events) < MaxEvents
Idle == outcome.op = "" /\ Room

\* a call of Event::new with the given cause: the graph is only read
Create(cause, evs) ==
    /\ outcome' = [op |-> "new", input |-> cause,
                   r |-> Ok(Some(Event_new(cause, evs, peer_list)))]
    /\ UNCHANGED <<events, peer_list>>
    /\ UNCHANGED <<mvVars, fnVars, netVars>>

\* Event::new_initial
CreateInitial ==
    /\ Idle
    /\ our_events = {}
    /\ Create(Initial, {})

\* our peer has an event that carries its vote for the payload
have_voted(evs, t) ==
    \E e \in evs :
        /\ e.content.creator = our_id
        /\ e.content.cause.vote = Some([creator |-> our_id, payload |-> t])

\* vote_for without the look-up of an earlier vote
vote_for_unchecked(t, evs, peers) ==
    Ok(Some(Event_new(Observation(our_last_event.hash,
                                  [creator |-> our_id, payload |-> t]), evs, peers)))

\* Parsec::vote_for: Event::new_from_observation on our latest event, unless
\* our peer has voted for the payload before
vote_for(t, evs, peers) ==
    IF have_voted(evs, t)
    THEN Err("DuplicateVote")
    ELSE Ok(Some(Event_new(Observation(our_last_event.hash,
                                       [creator |-> our_id, payload |-> t]), evs, peers)))

CreateObservation(t) ==
    /\ Idle
    /\ our_events # {}
    /\ outcome' = [op |-> "vote_for", input |-> [payload |-> t],
                   r |-> vote_for(t, events, peer_list)]
    /\ UNCHANGED <<events, peer_list>>
    /\ UNCHANGED <<mvVars, fnVars, netVars>>

\* Event::new_from_request / new_from_response on our latest event and the
\* event o of another peer
CreateSync(kind, o) ==
    /\ Idle
    /\ our_events # {}
    /\ o.content.creator # our_id
    /\ Create(IF kind = "Request" THEN Request(our_last_event.hash, o.hash)
              ELSE Response(our_last_event.hash, o.hash), events)

\* the else branch of Event::new: index_and_last_ancestors has failed
constructed_invalid(cause, evs, peers) ==
    ~index_and_last_ancestors([creator |-> our_id, cause |-> cause], evs, peers).ok

\* log_or_panic!: a panic in a build with the feature "testing", a log entry
\* and the execution going on in any other build
Builds == {"testing", "production"}
Panic == Err("constructed an invalid event.")

\* the hashes the tests hand to new_from_request and new_from_response: as
\* self-parent our latest event or a hash that is not in the graph, as other
\* parent another peer's event or such a hash; new_from_observation is
\* called with our latest event by vote_for, and here with the hash that is
\* not in the graph
SelfParentHashes == {e.hash : e \in {f \in our_events : f = our_last_event}} \cup {UnknownHash}
OtherParentHashes == {e.hash : e \in events \ our_events} \cup {UnknownHash}
LocalCauses ==
    {Observation(UnknownHash, [creator |-> our_id, payload |-> t]) : t \in Transactions}
    \cup {Request(s, o) : s \in SelfParentHashes, o \in OtherParentHashes}
    \cup {Response(s, o) : s \in SelfParentHashes, o \in OtherParentHashes}

\* Event::new_from_request / new_from_response / new_from_observation with
\* the given hashes. An event constructed as invalid is reported by
\* log_or_panic!; what the caller does with the one a production build
\* returns is not part of Event, and the graph keeps the valid events only.
CreateLocal(cause, build) ==
    /\ Idle
    /\ outcome' =
          IF constructed_invalid(cause, events, peer_list)
          THEN [op |-> "new_invalid", input |-> cause,
                r |-> IF build = "testing" THEN Panic
                      ELSE Ok(Some(Event_new(cause, events, peer_list)))]
          ELSE [op |-> "new", input |-> cause,
                r |-> Ok(Some(Event_new(cause, events, peer_list)))]
    /\ UNCHANGED <<events, peer_list>>
    /\ UNCHANGED <<mvVars, fnVars, netVars>>

\* the causes of the events another peer c may send: any parents, known or not
Causes(c) ==
    {Initial}
    \cup {Observation(s, [creator |-> c, payload |-> t]) :
             s \in Hashes \cup {UnknownHash}, t \in Transactions}
    \cup {Request(s, o) : s \in Hashes \cup {UnknownHash}, o \in Hashes \cup {UnknownHash}}
    \cup {Response(s, o) : s \in Hashes \cup {UnknownHash}, o \in Hashes \cup {UnknownHash}}

signed_by(signer, content) ==
    [content |-> content, signature |-> sign_detached(signer, serialise(content))]

\* a call of Event::unpack: the graph is only read
Unpack(packed_event) ==
    /\ Idle
    /\ outcome' = [op |-> "unpack", input |-> packed_event,
                   r |-> unpack(packed_event, events, peer_list)]
    /\ UNCHANGED <<events, peer_list>>
    /\ UNCHANGED <<mvVars, fnVars, netVars>>

\* tests::event_construction_unpack: the event just created is packed and
\* unpacked against the same graph
PackUnpack ==
    /\ outcome.op \in {"new", "vote_for"}
    /\ outcome.r.ok
    /\ outcome' = [op |-> "pack_unpack", input |-> TheOne(outcome.r.value),
                   r |-> unpack(pack(TheOne(outcome.r.value)), events, peer_list)]
    /\ UNCHANGED <<events, peer_list>>
    /\ UNCHANGED <<mvVars, fnVars, netVars>>

\* the caller handles the result: a new event goes into the graph under its
\* hash; Ok(None) and errors leave the graph as it is
returned_event(o) ==
    IF o.op \in {"new", "vote_for", "unpack"} /\ o.r.ok THEN o.r.value ELSE {}

Insert ==
    /\ outcome.op # ""
    /\ events' = events \cup returned_event(outcome)
    /\ outcome' = NoOutcome
    /\ UNCHANGED peer_list
    /\ UNCHANGED <<mvVars, fnVars, netVars>>

\* PeerList::add_peer
AddPeer(p) ==
    /\ outcome.op = ""
    /\ p \notin peer_list
    /\ peer_list' = peer_list \cup {p}
    /\ UNCHANGED <<events, outcome>>
    /\ UNCHANGED <<mvVars, fnVars, netVars>>

EvInit == NoVotes /\ NoEvents /\ NoMessages /\ NoCalls

EvNext ==
    \/ CreateInitial
    \/ \E t \in Transactions : CreateObservation(t)
    \/ \E kind \in {"Request", "Response"}, o \in events : CreateSync(kind, o)
    \/ \E cause \in LocalCauses, build \in Builds : CreateLocal(cause, build)
    \/ \E c \in EvPeers \ {our_id} : \E cause \in Causes(c) :
          Unpack(signed_by(c, [creator |-> c, cause |-> cause]))
    \/ \E c \in EvPeers \ {our_id} : \E signer \in EvPeers \ {c} :
          Unpack(signed_by(signer, [creator |-> c, cause |-> Initial]))
    \/ \E e \in events : Unpack(pack(e))
    \/ PackUnpack
    \/ Insert
    \/ \E p \in EvPeers : AddPeer(p)

SpecEv == EvInit /\ [][EvNext]_vars

(***************************************************************************)
(* Pure functions of observation.rs and parsec_helpers.rs, applied to      *)
(* inputs drawn from bounded sets.  fin holds the function and its         *)
(* arguments, fout its result once the call has returned.                  *)
(***************************************************************************)
MaxUnconsensused == 3
MaxIndexByCreator == 3
MaxHash == 2
usize_MAX == 2147483647

Cmp3(a, b) == IF a < b THEN 0 - 1 ELSE IF a > b THEN 1 ELSE 0

\* the observations: each variant of the enum, with a few values
Observations ==
    {[variant |-> "Genesis", value |-> EvPeers], [variant |-> "StartDkg", value |-> EvPeers],
     [variant |-> "DkgResult", value |-> EvPeers]}
    \cup {[variant |-> v, value |-> {p}] :
             v \in {"Add", "Remove", "Left", "Accusation"}, p \in EvPeers}
    \cup {[variant |-> v, value |-> {t}] :
             v \in {"OpaquePayload", "DkgMessage"}, t \in {"x", "y"}}

is_opaque(observation) == observation.variant = "OpaquePayload"
is_dkg_message(observation) == observation.variant = "DkgMessage"
ObservationHash(observation) == Hash_from(observation)

\* ObservationKey: Single(hash, peer_index) or Supermajority(hash)
Single(hash, creator) == [variant |-> "Single", hash |-> hash, peer |-> Some(creator)]
Supermajority(hash) == [variant |-> "Supermajority", hash |-> hash, peer |-> None]

ObservationKey_new(hash, creator, consensus_mode) ==
    IF consensus_mode = "Single" THEN Single(hash, creator) ELSE Supermajority(hash)

consensus_mode(key) ==
    IF key.variant = "Single" THEN "Single" ELSE "Supermajority"

peer_index(key) == key.peer

\* ConsensusMode::of taking a DkgMessage for any other non-opaque observation
ConsensusMode_of_opaque_only(mode, observation) ==
    IF is_opaque(observation) THEN mode ELSE "Supermajority"

ConsensusMode_of(mode, observation) ==
    IF is_opaque(observation) THEN mode
    ELSE IF is_dkg_message(observation) THEN "Single"
    ELSE "Supermajority"

\* the ids of the peers by peer index, as numbers in id order
\* (parsec_helpers.rs tests: NAMES)
NAMES == <<5, 9, 6, 1, 8, 2, 3, 7, 0, 4>>
peer_list_get(index) == IF index + 1 \in DOMAIN NAMES THEN Some(NAMES[index + 1]) ELSE None

\* Option<P>::cmp: None is less than Some
option_cmp(l, r) ==
    IF l = None THEN (IF r = None THEN 0 ELSE 0 - 1)
    ELSE IF r = None THEN 1
    ELSE Cmp3(TheOne(l), TheOne(r))

\* PeerList::get on a peer list given as the ids of its peers by peer index
peer_list_get_in(names, index) ==
    IF index + 1 \in DOMAIN names THEN Some(names[index + 1]) ELSE None

\* consistent_cmp comparing the peer indices of the keys, not the ids
consistent_cmp_by_index(l, r, names) ==
    IF l.hash # r.hash THEN Cmp3(l.hash, r.hash)
    ELSE option_cmp(peer_index(l), peer_index(r))

\* ObservationKey::consistent_cmp with the peer list names
consistent_cmp_in(l, r, names) ==
    IF l.hash # r.hash THEN Cmp3(l.hash, r.hash)
    ELSE option_cmp(IF peer_index(l) = None THEN None
                    ELSE peer_list_get_in(names, TheOne(peer_index(l))),
                    IF peer_index(r) = None THEN None
                    ELSE peer_list_get_in(names, TheOne(peer_index(r))))

\* ObservationKey::consistent_cmp with the peer list of the tests
consistent_cmp(l, r) == consistent_cmp_in(l, r, NAMES)

\* the derived Ord of ObservationKey: Single before Supermajority, then the fields
key_cmp(l, r) ==
    IF l.variant # r.variant THEN (IF l.variant = "Single" THEN 0 - 1 ELSE 1)
    ELSE IF l.hash # r.hash THEN Cmp3(l.hash, r.hash)
    ELSE IF l.variant = "Single" THEN Cmp3(TheOne(l.peer), TheOne(r.peer))
    ELSE 0

\* slice::sort_by: a stable sort; compare[<<l, r>>] is the closure's result
sort_by(s, compare) ==
    LET n == Len(s)
        before(i, j) ==
            compare[<<s[i], s[j]>>] < 0 \/ (compare[<<s[i], s[j]>>] = 0 /\ i < j)
        pos(i) == Cardinality({j \in 1..n : before(j, i)}) + 1
    IN  [k \in 1..n |-> s[CHOOSE i \in 1..n : pos(i) = k]]

\* the comparison of (payload_key, 0 or 1) pairs that groups the events
group_cmp(l, r) ==
    IF key_cmp(l.key, r.key) # 0 THEN key_cmp(l.key, r.key) ELSE Cmp3(l.flag, r.flag)

\* the final comparison by the consistent order of the keys alone
vote_order_cmp_keys_only(l, r) == consistent_cmp(l.key, r.key)

\* the final comparison: the creator's voting order, then the consistent order
vote_order_cmp(l, r) ==
    IF l.index = r.index THEN consistent_cmp(l.key, r.key) ELSE Cmp3(l.index, r.index)

\* find_interesting_content_for_event without the is_descendant filter
find_interesting_content_of_every_event(builder, unconsensused_events, is_already_interesting_content, is_interesting_payload) ==
    LET has_builder_creator(event) == event.creator = builder.creator
        wanted(event) ==
            /\ event.payload_key # None
            /\ TheOne(event.payload_key) \notin is_already_interesting_content
        kept == SelectSeq(unconsensused_events, wanted)
        events_to_process ==
            [k \in 1..Len(kept) |->
                [event |-> kept[k], key |-> TheOne(kept[k].payload_key),
                 flag |-> IF has_builder_creator(kept[k]) THEN 0 ELSE 1]]
        pairs(s) == {s[i] : i \in DOMAIN s} \X {s[i] : i \in DOMAIN s}
        sorted == sort_by(events_to_process,
                          [p \in pairs(events_to_process) |-> group_cmp(p[1], p[2])])
        first_of_group(i) == i = 1 \/ sorted[i].key # sorted[i - 1].key
        heads == SelectSeq([i \in 1..Len(sorted) |-> i], first_of_group)
        interesting(i) == sorted[i].key \in is_interesting_payload
        chosen == SelectSeq(heads, interesting)
        interesting_payload_keys ==
            [k \in 1..Len(chosen) |->
                [index |-> IF has_builder_creator(sorted[chosen[k]].event)
                           THEN sorted[chosen[k]].event.index_by_creator
                           ELSE usize_MAX,
                 key |-> sorted[chosen[k]].key]]
        ordered == sort_by(interesting_payload_keys,
                           [p \in pairs(interesting_payload_keys) |->
                               vote_order_cmp(p[1], p[2])])
    IN  [k \in 1..Len(ordered) |-> ordered[k].key]

\* find_interesting_content_for_event without the grouping of equal payload keys
find_interesting_content_ungrouped(builder, unconsensused_events, is_already_interesting_content, is_interesting_payload) ==
    LET has_builder_creator(event) == event.creator = builder.creator
        wanted(event) ==
            /\ event.seen
            /\ event.payload_key # None
            /\ TheOne(event.payload_key) \notin is_already_interesting_content
        kept == SelectSeq(unconsensused_events, wanted)
        events_to_process ==
            [k \in 1..Len(kept) |->
                [event |-> kept[k], key |-> TheOne(kept[k].payload_key),
                 flag |-> IF has_builder_creator(kept[k]) THEN 0 ELSE 1]]
        pairs(s) == {s[i] : i \in DOMAIN s} \X {s[i] : i \in DOMAIN s}
        sorted == sort_by(events_to_process,
                          [p \in pairs(events_to_process) |-> group_cmp(p[1], p[2])])
        first_of_group(i) == TRUE
        heads == SelectSeq([i \in 1..Len(sorted) |-> i], first_of_group)
        interesting(i) == sorted[i].key \in is_interesting_payload
        chosen == SelectSeq(heads, interesting)
        interesting_payload_keys ==
            [k \in 1..Len(chosen) |->
                [index |-> IF has_builder_creator(sorted[chosen[k]].event)
                           THEN sorted[chosen[k]].event.index_by_creator
                           ELSE usize_MAX,
                 key |-> sorted[chosen[k]].key]]
        ordered == sort_by(interesting_payload_keys,
                           [p \in pairs(interesting_payload_keys) |->
                               vote_order_cmp(p[1], p[2])])
    IN  [k \in 1..Len(ordered) |-> ordered[k].key]

find_interesting_content_for_event(builder, unconsensused_events, is_already_interesting_content, is_interesting_payload) ==
    LET has_builder_creator(event) == event.creator = builder.creator
        wanted(event) ==
            /\ event.seen
            /\ event.payload_key # None
            /\ TheOne(event.payload_key) \notin is_already_interesting_content
        kept == SelectSeq(unconsensused_events, wanted)
        events_to_process ==
            [k \in 1..Len(kept) |->
                [event |-> kept[k], key |-> TheOne(kept[k].payload_key),
                 flag |-> IF has_builder_creator(kept[k]) THEN 0 ELSE 1]]
        pairs(s) == {s[i] : i \in DOMAIN s} \X {s[i] : i \in DOMAIN s}
        sorted == sort_by(events_to_process,
                          [p \in pairs(events_to_process) |-> group_cmp(p[1], p[2])])
        first_of_group(i) == i = 1 \/ sorted[i].key # sorted[i - 1].key
        heads == SelectSeq([i \in 1..Len(sorted) |-> i], first_of_group)
        interesting(i) == sorted[i].key \in is_interesting_payload
        chosen == SelectSeq(heads, interesting)
        interesting_payload_keys ==
            [k \in 1..Len(chosen) |->
                [index |-> IF has_builder_creator(sorted[chosen[k]].event)
                           THEN sorted[chosen[k]].event.index_by_creator
                           ELSE usize_MAX,
                 key |-> sorted[chosen[k]].key]]
        ordered == sort_by(interesting_payload_keys,
                           [p \in pairs(interesting_payload_keys) |->
                               vote_order_cmp(p[1], p[2])])
    IN  [k \in 1..Len(ordered) |-> ordered[k].key]

\* the events of the harness: the builder's creator has peer index 0
builder_event == [creator |-> 0, index_by_creator |-> MaxIndexByCreator + 1,
                  payload_key |-> None, seen |-> TRUE]
TestEvents ==
    {[creator |-> c, index_by_creator |-> i, payload_key |-> Some(k), seen |-> d] :
        c \in {0, 3}, i \in 1..MaxIndexByCreator, d \in BOOLEAN,
        k \in {Supermajority(1), Supermajority(2)}}
    \cup {[creator |-> c, index_by_creator |-> i, payload_key |-> Some(Single(1, c)),
           seen |-> d] : c \in {0, 3}, i \in 1..MaxIndexByCreator, d \in BOOLEAN}
TestKeys == {Supermajority(1), Supermajority(2), Single(1, 0), Single(1, 3)}

\* the sequences without repetition of at most n elements of S
RECURSIVE Orders(_, _)
Orders(S, n) ==
    IF n = 0 THEN {<<>>}
    ELSE LET shorter == Orders(S, n - 1)
         IN  shorter \cup {Append(s, x) : s \in {t \in shorter : Len(t) = n - 1}, x \in S}

Distinct(s) == \A i, j \in 1..Len(s) : i # j => s[i] # s[j]

FindInputs ==
    {[fn |-> "find_interesting_content_for_event", unconsensused_events |-> s,
      is_already_interesting_content |-> p[1], is_interesting_payload |-> TestKeys \ p[2]] :
        s \in {t \in Orders(TestEvents, MaxUnconsensused) : Distinct(t)},
        p \in {<<{}, {}>>, <<{Supermajority(2)}, {}>>, <<{}, {Supermajority(1)}>>}}

KeyInputs ==
    {[fn |-> "ObservationKey_new", observation |-> o, creator |-> c, mode |-> m] :
        o \in Observations, c \in {0, 3}, m \in {"Single", "Supermajority"}}

\* the keys of one peer: Single keys of the three peers of its peer list and
\* Supermajority keys
CmpIds == {5, 9, 6}
CmpKeys == {Single(h, i) : h \in 1..MaxHash, i \in 0..2} \cup {Supermajority(h) : h \in 1..MaxHash}
PeerLists == {s \in [1..3 -> CmpIds] : \A i, j \in 1..3 : s[i] = s[j] => i = j}

\* the peer index of the peer with the given id
index_of(names, id) == (CHOOSE i \in DOMAIN names : names[i] = id) - 1

\* the key another peer has for the same payload and creator: the peer index
\* is the one its own peer list gives to the creator's id
at_peer(key, from, to) ==
    IF key.variant = "Single"
    THEN Single(key.hash, index_of(to, from[TheOne(key.peer) + 1]))
    ELSE key

CmpInput(k, a, b) == [fn |-> "consistent_cmp", keys |-> k, ours |-> a, theirs |-> b]

FnInit ==
    /\ NoVotes /\ NoEvents /\ NoMessages
    /\ \/ fin \in KeyInputs \cup FindInputs
       \/ \E k \in [1..3 -> CmpKeys], a \in PeerLists, b \in PeerLists :
             fin = CmpInput(k, a, b)
    /\ fout = NoOutput

\* ObservationKey::new(hash, creator, consensus_mode.of(&observation))
ApplyKey ==
    /\ fin.fn = "ObservationKey_new" /\ ~fout.done
    /\ fout' = [done |-> TRUE,
                value |-> ObservationKey_new(ObservationHash(fin.observation), fin.creator,
                                             ConsensusMode_of(fin.mode, fin.observation))]
    /\ UNCHANGED fin
    /\ UNCHANGED <<mvVars, evVars, netVars>>

ApplyFind ==
    /\ fin.fn = "find_interesting_content_for_event" /\ ~fout.done
    /\ fout' = [done |-> TRUE,
                value |-> find_interesting_content_for_event(
                              builder_event, fin.unconsensused_events,
                              fin.is_already_interesting_content,
                              fin.is_interesting_payload)]
    /\ UNCHANGED fin
    /\ UNCHANGED <<mvVars, evVars, netVars>>

\* consistent_cmp of every two of the three keys, by our peer with its peer
\* list and by another peer with its own peer list and its own keys
ApplyCmp ==
    /\ fin.fn = "consistent_cmp" /\ ~fout.done
    /\ fout' = [done |-> TRUE,
                value |-> [ours |-> [i \in 1..3, j \in 1..3 |->
                                        consistent_cmp_in(fin.keys[i], fin.keys[j], fin.ours)],
                           theirs |-> [i \in 1..3, j \in 1..3 |->
                                          consistent_cmp_in(
                                              at_peer(fin.keys[i], fin.ours, fin.theirs),
                                              at_peer(fin.keys[j], fin.ours, fin.theirs),
                                              fin.theirs)]]]
    /\ UNCHANGED fin
    /\ UNCHANGED <<mvVars, evVars, netVars>>

FnNext == ApplyKey \/ ApplyFind \/ ApplyCmp

SpecFn == FnInit /\ [][FnNext]_vars

(***************************************************************************)
(* One call of MetaVote::next on a parent of one entry, with the votes of  *)
(* three other peers for the entry's round and step, all drawn from the    *)
(* votes an update can leave behind.  The call and its result are recorded *)
(* as in SpecMV: in last and in the vector of the caller.                  *)
(***************************************************************************)
\* the estimates, bin_values and aux_value an undecided vote can hold: the
\* aux_value is set when bin_values becomes non-empty, to a value in it
UndecidedFields ==
    {f \in [estimates : SUBSET BOOLEAN, bin_values : SUBSET BOOLEAN,
            aux_value : {None, Some(TRUE), Some(FALSE)}] :
        /\ f.estimates # {}
        /\ f.bin_values \subseteq f.estimates
        /\ (f.bin_values = {}) = (f.aux_value = None)
        /\ f.aux_value \subseteq f.bin_values}

VotesAt(step) ==
    {[round |-> 0, step |-> step, estimates |-> f.estimates, bin_values |-> f.bin_values,
      aux_value |-> f.aux_value, decision |-> None] : f \in UndecidedFields}
    \cup {[round |-> 0, step |-> step, estimates |-> {b}, bin_values |-> {b},
           aux_value |-> Some(b), decision |-> Some(b)] : b \in BOOLEAN}

\* a number for each vector of at most one vote, to list the others up to order
bool_set_code(S) == (IF TRUE \in S THEN 1 ELSE 0) + (IF FALSE \in S THEN 2 ELSE 0)
vector_code(vec) ==
    IF vec = <<>> THEN 0
    ELSE 1 + bool_set_code(vec[1].estimates) + 4 * bool_set_code(vec[1].bin_values)
           + 16 * bool_set_code(vec[1].aux_value) + 64 * bool_set_code(vec[1].decision)

\* the vectors of the others, up to their order: each has no vote for the
\* step or one
OthersAt(step) ==
    {o \in [1..3 -> {<<>>} \cup {<<w>> : w \in VotesAt(step)}] :
        vector_code(o[1]) <= vector_code(o[2]) /\ vector_code(o[2]) <= vector_code(o[3])}

CoinTosses == {<<>>} \cup {[r \in {0} |-> b] : b \in BOOLEAN}

\* the fields of a vote appended after GenuineFlip with no coin toss at hand,
\* before and after updates that found no toss either
PendingFields ==
    {f \in [estimates : {{}}, bin_values : SUBSET BOOLEAN,
            aux_value : {None, Some(TRUE), Some(FALSE)}] :
        /\ (f.bin_values = {}) = (f.aux_value = None)
        /\ f.aux_value \subseteq f.bin_values}

\* the votes at round 1 / ForcedTrue, those waiting for the coin included
PendingVotes ==
    {[round |-> 1, step |-> "ForcedTrue", estimates |-> f.estimates,
      bin_values |-> f.bin_values, aux_value |-> f.aux_value, decision |-> None] :
        f \in UndecidedFields \cup PendingFields}
    \cup {[round |-> 1, step |-> "ForcedTrue", estimates |-> {b}, bin_values |-> {b},
           aux_value |-> Some(b), decision |-> Some(b)] : b \in BOOLEAN}

PendingOthers ==
    {o \in [1..3 -> {<<>>} \cup {<<w>> : w \in PendingVotes}] :
        vector_code(o[1]) <= vector_code(o[2]) /\ vector_code(o[2]) <= vector_code(o[3])}

PendingCoinTosses == {<<>>} \cup {[r \in {1} |-> b] : b \in BOOLEAN}

NextInput(step, v, o, c) ==
    [fn |-> "MetaVote_next", parent |-> <<v>>, others |-> o, coin_tosses |-> c]

StepInit ==
    /\ NoVotes /\ NoEvents /\ NoMessages
    /\ \/ \E step \in {Steps[i] : i \in 1..Len(Steps)} :
             \E v \in VotesAt(step), o \in OthersAt(step), c \in CoinTosses :
                 fin = NextInput(step, v, o, c)
       \/ \E v \in PendingVotes, o \in PendingOthers, c \in PendingCoinTosses :
             fin = NextInput("ForcedTrue", v, o, c)
    /\ fout = NoOutput

\* MetaVote::next(parent, others, coin_tosses, total_peers)
ApplyNext ==
    /\ fin.fn = "MetaVote_next" /\ ~fout.done
    /\ LET result == next(fin.parent, fin.others, fin.coin_tosses, total_peers)
       IN  /\ votes' = bump(PeerSeq[1], result)
           /\ fout' = [done |-> TRUE, value |-> result]
    /\ last' = [who |-> PeerSeq[1], parent |-> fin.parent, others |-> fin.others,
                coin_tosses |-> fin.coin_tosses]
    /\ UNCHANGED <<known, coin, turn, fin>>
    /\ UNCHANGED <<evVars, netVars>>

StepNext == ApplyNext

SpecStep == StepInit /\ [][StepNext]_vars

(***************************************************************************)
(* SpecSeen: one call of MetaVote::next as in SpecStep, on the votes an    *)
(* event can have among its ancestors.  The others are the vectors at      *)
(* events the new event strongly sees, and with each of them it sees the   *)
(* votes that event counted: a value an undecided vote holds in bin_values *)
(* is in the estimates of more than two thirds of the votes counted now,   *)
(* decided votes aside.                                                    *)
(***************************************************************************)
seen_together(v, o) ==
    LET vs == counted(v, o)
        undecided_with(b) == {k \in 1..Len(vs) : vs[k].decision = None /\ b \in vs[k].bin_values}
        backing(b) == {k \in 1..Len(vs) : vs[k].decision # None \/ b \in vs[k].estimates}
    IN  \A b \in BOOLEAN :
            undecided_with(b) # {} => 3 * Cardinality(backing(b)) > 2 * total_peers

SeenInit ==
    /\ NoVotes /\ NoEvents /\ NoMessages
    /\ \/ \E step \in {Steps[i] : i \in 1..Len(Steps)} :
             \E v \in VotesAt(step), o \in OthersAt(step), c \in CoinTosses :
                 /\ seen_together(v, o)
                 /\ fin = NextInput(step, v, o, c)
       \/ \E v \in PendingVotes, o \in PendingOthers, c \in PendingCoinTosses :
             /\ seen_together(v, o)
             /\ fin = NextInput("ForcedTrue", v, o, c)
    /\ fout = NoOutput

SpecSeen == SeenInit /\ [][StepNext]_vars

(***************************************************************************)
(* Malice (observation.rs): comparison, ordering and serialisation.  A     *)
(* malice is [variant, fields, boxed]: fields holds the event hashes, the  *)
(* packed event or the UnprovableMalice value as numbers, boxed the malice *)
(* of an Accomplice.                                                       *)
(***************************************************************************)
MaliceVariants ==
    <<"UnexpectedGenesis", "DuplicateVote", "MissingGenesis", "IncorrectGenesis", "Fork",
      "InvalidAccusation", "OtherParentBySameCreator", "SelfParentByDifferentCreator",
      "InvalidRequest", "InvalidResponse", "Unprovable", "Accomplice">>

variant_index(variant) == (CHOOSE i \in 1..Len(MaliceVariants) : MaliceVariants[i] = variant) - 1

\* UnprovableMalice
Spam == 0
Unspecified == 1

FieldValues == 1..MaxHash

Unboxed ==
    {[variant |-> v, fields |-> <<x>>, boxed |-> <<>>] :
        v \in {MaliceVariants[i] : i \in 1..Len(MaliceVariants)}
                 \ {"DuplicateVote", "Unprovable", "Accomplice"},
        x \in FieldValues}
    \cup {[variant |-> "DuplicateVote", fields |-> <<x, y>>, boxed |-> <<>>] :
             x \in FieldValues, y \in FieldValues}
    \cup {[variant |-> "Unprovable", fields |-> <<u>>, boxed |-> <<>>] :
             u \in {Spam, Unspecified}}

Malices ==
    Unboxed
    \cup {[variant |-> "Accomplice", fields |-> <<x>>, boxed |-> <<m>>] :
             x \in FieldValues,
             m \in {u \in Unboxed : u.variant \in {"Unprovable", "Fork"}}}

is_provable(malice) == malice.variant # "Unprovable"

\* the comparison of two sequences of numbers of one length, field by field
RECURSIVE fields_cmp(_, _)
fields_cmp(l, r) ==
    IF l = <<>> THEN 0
    ELSE IF l[1] # r[1] THEN Cmp3(l[1], r[1])
    ELSE fields_cmp(Tail(l), Tail(r))

\* UnprovableMalice::cmp
UnprovableMalice_cmp(l, r) == 0

\* the derived Ord of Malice: the variants in the order of declaration, then
\* the fields
RECURSIVE Malice_cmp(_, _)
Malice_cmp(l, r) ==
    IF l.variant # r.variant THEN Cmp3(variant_index(l.variant), variant_index(r.variant))
    ELSE IF l.variant = "Unprovable" THEN UnprovableMalice_cmp(l.fields[1], r.fields[1])
    ELSE IF fields_cmp(l.fields, r.fields) # 0 THEN fields_cmp(l.fields, r.fields)
    ELSE IF l.boxed = <<>> THEN 0
    ELSE Malice_cmp(l.boxed[1], r.boxed[1])

\* mutant: UnprovableMalice with the derived equality
UnprovableMalice_eq_derived(l, r) == l = r

\* UnprovableMalice::eq
UnprovableMalice_eq(l, r) == TRUE

\* the derived PartialEq of Malice
RECURSIVE Malice_eq(_, _)
Malice_eq(l, r) ==
    /\ l.variant = r.variant
    /\ IF l.variant = "Unprovable" THEN UnprovableMalice_eq(l.fields[1], r.fields[1])
       ELSE /\ l.fields = r.fields
            /\ l.boxed = <<>> \/ Malice_eq(l.boxed[1], r.boxed[1])

\* UnprovableMalice::serialize: a unit
UnprovableMalice_serialize(value) == <<>>

\* serialise(&malice): the index of the variant, then the fields
RECURSIVE serialise_malice(_)
serialise_malice(malice) ==
    <<variant_index(malice.variant)>>
    \o (IF malice.variant = "Unprovable" THEN UnprovableMalice_serialize(malice.fields[1])
        ELSE malice.fields)
    \o (IF malice.boxed = <<>> THEN <<>> ELSE serialise_malice(malice.boxed[1]))

\* UnprovableMaliceVisitor::visit_unit
visit_unit == Unspecified

\* deserialise: the malice read from the front of the bytes and the bytes left
RECURSIVE deserialise_malice(_)
deserialise_malice(bytes) ==
    LET failed == [ok |-> FALSE, value |-> <<>>, rest |-> <<>>]
        take(n) == [i \in 1..n |-> bytes[i + 1]]
        left(n) == [i \in 1..(Len(bytes) - 1 - n) |-> bytes[i + 1 + n]]
    IN  IF bytes = <<>> \/ bytes[1] + 1 \notin 1..Len(MaliceVariants) THEN failed
        ELSE LET variant == MaliceVariants[bytes[1] + 1]
             IN  CASE variant = "Unprovable" ->
                          [ok |-> TRUE,
                           value |-> <<[variant |-> variant, fields |-> <<visit_unit>>,
                                        boxed |-> <<>>]>>,
                           rest |-> left(0)]
                   [] variant = "DuplicateVote" ->
                          IF Len(bytes) < 3 THEN failed
                          ELSE [ok |-> TRUE,
                                value |-> <<[variant |-> variant, fields |-> take(2),
                                             boxed |-> <<>>]>>,
                                rest |-> left(2)]
                   [] variant = "Accomplice" ->
                          IF Len(bytes) < 2 THEN failed
                          ELSE LET inner == deserialise_malice(left(1))
                               IN  IF ~inner.ok THEN failed
                                   ELSE [ok |-> TRUE,
                                         value |-> <<[variant |-> variant, fields |-> take(1),
                                                      boxed |-> inner.value]>>,
                                         rest |-> inner.rest]
                   [] OTHER ->
                          IF Len(bytes) < 2 THEN failed
                          ELSE [ok |-> TRUE,
                                value |-> <<[variant |-> variant, fields |-> take(1),
                                             boxed |-> <<>>]>>,
                                rest |-> left(1)]

\* deserialise(&bytes): fails if bytes are left over
deserialise(bytes) ==
    LET d == deserialise_malice(bytes)
    IN  IF d.ok /\ d.rest = <<>> THEN [ok |-> TRUE, value |-> d.value]
        ELSE [ok |-> FALSE, value |-> <<>>]

MaliceInit ==
    /\ NoVotes /\ NoEvents /\ NoMessages
    /\ \E l \in Malices, r \in Malices : fin = [fn |-> "Malice", malice1 |-> l, malice2 |-> r]
    /\ fout = NoOutput

\* the comparisons and the serialisations of the tests of observation.rs
CompareMalice ==
    /\ fin.fn = "Malice" /\ ~fout.done
    /\ fout' = [done |-> TRUE,
                value |-> [eq |-> Malice_eq(fin.malice1, fin.malice2),
                           cmp |-> Malice_cmp(fin.malice1, fin.malice2),
                           hash1 |-> Hash_from(serialise_malice(fin.malice1)),
                           hash2 |-> Hash_from(serialise_malice(fin.malice2)),
                           after |-> deserialise(serialise_malice(fin.malice1))]]
    /\ UNCHANGED fin
    /\ UNCHANGED <<mvVars, evVars, netVars>>

MaliceNext == CompareMalice

SpecMalice == MaliceInit /\ [][MaliceNext]_vars

(***************************************************************************)
(* SpecNet: the message queues of the network simulator                    *)
(* (dev_utils/network.rs).  A LocalStep lets every running peer, in id     *)
(* order, handle the messages that are due, and then lets running peers    *)
(* send gossip; the random choices of the schedule (who gossips, to whom,  *)
(* the delays) and the answers of the peers' Parsec instances are chosen   *)
(* freely.  posted and handled record what send_message and                *)
(* handle_messages have done; the field passed of a queue entry counts the *)
(* calls of handle_messages for its peer, at a step when it was due, that  *)
(* have left it in the queue.                                              *)
(***************************************************************************)
MaxLocalStep == 3
MaxMessages == 3
MaxDelay == 2
\* the delays drawn for a message: none, or the longest
Delays == {0, MaxDelay}

QueueEntry(id, sender, kind, resp_delay, deliver_after) ==
    [id |-> id, sender |-> sender, kind |-> kind, resp_delay |-> resp_delay,
     deliver_after |-> deliver_after, passed |-> 0]

\* Network::send_message on the queues q and the record of the messages posted
send_message(net, src, dst, kind, resp_delay, deliver_after) ==
    LET id == Len(net.posted) + 1
        note == [id |-> id, src |-> src, dst |-> dst, deliver_after |-> deliver_after,
                 to_running |-> dst \in running]
    IN  IF dst \notin running
        THEN [net EXCEPT !.posted = Append(@, note)]
        ELSE [net EXCEPT !.q[dst] = Append(@, QueueEntry(id, src, kind, resp_delay,
                                                          deliver_after)),
                         !.posted = Append(@, note)]

\* partition taking a message for due only after its deliver_after step
partition_after(msgs, s) ==
    [to_handle |-> SelectSeq(msgs, LAMBDA entry : entry.deliver_after < s),
     rest |-> SelectSeq(msgs, LAMBDA entry : ~(entry.deliver_after < s))]

\* msgs.into_iter().partition(|entry| entry.deliver_after <= step)
partition(msgs, s) ==
    [to_handle |-> SelectSeq(msgs, LAMBDA entry : entry.deliver_after <= s),
     rest |-> SelectSeq(msgs, LAMBDA entry : ~(entry.deliver_after <= s))]

\* the entries left in the queue by a call at step s: those that were due
\* have been passed over once more
gone_by(rest, s) ==
    [k \in 1..Len(rest) |->
        IF rest[k].deliver_after <= s THEN [rest[k] EXCEPT !.passed = @ + 1] ELSE rest[k]]

\* the body of the loop over to_handle: a request the peer's Parsec accepts
\* is answered with a response due resp_delay steps later
handle_entry(net, peer, s, entry, accepts) ==
    LET noted == [net EXCEPT !.h = Append(@, [id |-> entry.id, peer |-> peer, step |-> s,
                                               deliver_after |-> entry.deliver_after])]
    IN  IF entry.kind = "Request" /\ accepts
        THEN send_message(noted, peer, entry.sender, "Response", 0, s + entry.resp_delay)
        ELSE noted

RECURSIVE handle_all(_, _, _, _, _, _)
handle_all(net, peer, s, to_handle, k, accepts) ==
    IF k > Len(to_handle) THEN net
    ELSE handle_all(handle_entry(net, peer, s, to_handle[k], accepts),
                    peer, s, to_handle, k + 1, accepts)

\* Network::handle_messages
handle_messages(net, peer, s, accepts) ==
    LET parts == partition(net.q[peer], s)
        kept == [net EXCEPT !.q[peer] = gone_by(parts.rest, s)]
    IN  handle_all(kept, peer, s, parts.to_handle, 1, accepts)

\* the first loop of LocalStep, over running_peers_ids()
RECURSIVE handle_in_turn(_, _, _, _, _)
handle_in_turn(net, order, k, s, accepting) ==
    IF k > Len(order) THEN net
    ELSE handle_in_turn(handle_messages(net, order[k], s, order[k] \in accepting),
                        order, k + 1, s, accepting)

\* Network::send_gossip with a valid recipient
send_gossip(net, gossip, s) ==
    send_message(net, gossip.sender, gossip.recipient, "Request", gossip.resp_delay,
                 s + gossip.req_delay)

RECURSIVE gossip_in_turn(_, _, _, _)
gossip_in_turn(net, plan, k, s) ==
    IF k > Len(plan) THEN net
    ELSE gossip_in_turn(send_gossip(net, plan[k], s), plan, k + 1, s)

running_peers_ids == SelectSeq(NetPeerSeq, LAMBDA p : p \in running)

\* the outcomes of the random choices of a LocalStep in which no peer or one
\* peer sends gossip
GossipPlans ==
    {<<>>} \cup {<<[sender |-> p, recipient |-> r, req_delay |-> d, resp_delay |-> e]>> :
                    p \in running, r \in running, d \in Delays, e \in Delays}

\* the running peers that have a request due at step s
with_due_request(s) ==
    {p \in running : \E k \in 1..Len(msg_queue[p]) :
        msg_queue[p][k].kind = "Request" /\ msg_queue[p][k].deliver_after <= s}

\* ScheduleEvent::LocalStep(step)
LocalStep ==
    /\ local_step < MaxLocalStep
    /\ \E accepting \in SUBSET with_due_request(local_step) :
          LET net0 == [q |-> msg_queue, posted |-> posted, h |-> handled]
              net1 == handle_in_turn(net0, running_peers_ids, 1, local_step, accepting)
          IN  \E plan \in GossipPlans :
                  /\ \A k \in 1..Len(plan) : plan[k].sender # plan[k].recipient
                  /\ Len(net1.posted) + Len(plan) <= MaxMessages
                  /\ LET net2 == gossip_in_turn(net1, plan, 1, local_step)
                     IN  /\ msg_queue' = net2.q
                         /\ posted' = net2.posted
                         /\ handled' = net2.h
    /\ stepped' = running
    /\ local_step' = local_step + 1
    /\ UNCHANGED running
    /\ UNCHANGED <<mvVars, evVars, fnVars>>

\* Network::allow_removal_of_peer, every peer that is running being Joined
allow_removal_of_peer ==
    3 * (Cardinality(running) - 1) > 2 * Cardinality(running)

\* ScheduleEvent::Fail / RemovePeer: the peer is not running any more
Fail(p) ==
    /\ p \in running
    /\ allow_removal_of_peer
    /\ running' = running \ {p}
    /\ UNCHANGED <<msg_queue, local_step, posted, handled, stepped>>
    /\ UNCHANGED <<mvVars, evVars, fnVars>>

NetInit == NoVotes /\ NoEvents /\ NoMessages /\ NoCalls

NetNext ==
    \/ LocalStep
    \/ \E p \in NetPeers : Fail(p)

SpecNet == NetInit /\ [][NetNext]_vars

\* the vector the latest call returned
result_of_last == votes[last.who].vec
Called == last.who # ""

decided(vec) == {i \in 1..Len(vec) : vec[i].decision # None}
same_step(v, w) == v.round = w.round /\ v.step = w.step

\* every vector computed so far that some event still holds or sees
Computed == {votes[h].vec : h \in AllPeers} \cup {known[h][p].vec : h, p \in AllPeers}

DecisionPermanent ==
    Called =>
        \A i \in decided(last.parent) :
            /\ i <= Len(result_of_last)
            /\ result_of_last[i] = last.parent[i]

\* C5 amended: a decided entry of the parent vector is in the returned vector
\* unchanged, unless an earlier entry of the parent becomes decided in the
\* call: then the returned vector ends at that entry.  Either way the returned
\* vector ends in a decided entry.
DecisionKept ==
    Called =>
        \A i \in decided(last.parent) :
            /\ result_of_last # <<>>
            /\ Last(result_of_last).decision # None
            /\ \/ /\ i <= Len(result_of_last)
                  /\ result_of_last[i] = last.parent[i]
               \/ /\ Len(result_of_last) < i
                  /\ last.parent[Len(result_of_last)].decision = None
                  /\ same_step(Last(result_of_last), last.parent[Len(result_of_last)])

\* C5 witness: a call whose parent held a decision that the result holds
\* unchanged, with another peer's vote for that step among the others
DecisionKeptWitness ==
    /\ Called
    /\ \E i \in decided(last.parent) :
          /\ i <= Len(result_of_last)
          /\ \E k \in 1..Len(last.others) : matching(last.others[k], last.parent[i]) # <<>>

\* the entries of the parent and of the result for the same round and step
SameStepPairs ==
    {ij \in (1..Len(last.parent)) \X (1..Len(result_of_last)) :
        same_step(last.parent[ij[1]], result_of_last[ij[2]])}

\* C6 as stated: every value in the estimates or bin_values of a parent entry
\* is in those of the result entry for the same round and step.
EstimatesGrow ==
    Called =>
        \A ij \in SameStepPairs :
            /\ last.parent[ij[1]].estimates \subseteq result_of_last[ij[2]].estimates
            /\ last.parent[ij[1]].bin_values \subseteq result_of_last[ij[2]].bin_values

\* C6 amended: the same, for the result entries that hold no decision; an
\* entry that holds a decision has exactly the decision as its estimates and
\* bin_values.
EstimatesGrowUndecided ==
    Called =>
        \A ij \in SameStepPairs :
            IF result_of_last[ij[2]].decision = None
            THEN /\ last.parent[ij[1]].estimates \subseteq result_of_last[ij[2]].estimates
                 /\ last.parent[ij[1]].bin_values \subseteq result_of_last[ij[2]].bin_values
            ELSE /\ result_of_last[ij[2]].estimates = result_of_last[ij[2]].decision
                 /\ result_of_last[ij[2]].bin_values = result_of_last[ij[2]].decision

\* C6 witness: a call in which an entry gained an estimate and stayed undecided
EstimatesGrowWitness ==
    /\ Called
    /\ \E ij \in SameStepPairs :
          /\ result_of_last[ij[2]].decision = None
          /\ last.parent[ij[1]].bin_values # {}
          /\ last.parent[ij[1]].estimates # result_of_last[ij[2]].estimates

\* C7: in every vector MetaVote::next returns only the last entry can hold a
\* decision, and a call whose parent holds a decision returns no longer vector.
OnlyLastDecided ==
    /\ \A v \in Computed : \A i \in decided(v) : i = Len(v)
    /\ Called /\ decided(last.parent) # {} => Len(result_of_last) <= Len(last.parent)

\* C7 witness: a call on a decided parent while the others' votes for the
\* decided step hold a supermajority of aux values
OnlyLastDecidedWitness ==
    /\ Called
    /\ decided(last.parent) # {}
    /\ LET counts == MetaVoteCounts_new(Last(last.parent), last.others, total_peers)
       IN  is_supermajority(counts, aux_values_set(counts))

\* the parents of e that the graph holds
parents(evs, e) ==
    (IF e.content.cause.self_parent = None THEN {}
     ELSE events_get(evs, TheOne(e.content.cause.self_parent)))
    \cup (IF e.content.cause.other_parent = None THEN {}
          ELSE events_get(evs, TheOne(e.content.cause.other_parent)))

\* e and every event reachable from it through self_parent / other_parent links
RECURSIVE ancestors(_, _)
ancestors(evs, e) == {e} \cup UNION {ancestors(evs, p) : p \in parents(evs, e)}

AncOK(evs) ==
    \A e \in evs :
        /\ e.content.creator \in DOMAIN e.last_ancestors
        /\ e.last_ancestors[e.content.creator] = e.index
        /\ \A f \in ancestors(evs, e) :
              /\ f.content.creator \in DOMAIN e.last_ancestors
              /\ e.last_ancestors[f.content.creator] >= f.index

\* every event's creator is in the peer list
Known(evs, peers) == \A e \in evs : e.content.creator \in peers

\* every self-parent is an event of the same creator and no two events share one
NoForks(evs) ==
    /\ \A e \in evs : \A p \in parents(evs, e) :
          p.hash \in e.content.cause.self_parent => p.content.creator = e.content.creator
    /\ \A e, f \in evs :
          e # f /\ e.content.cause.self_parent # None
              => e.content.cause.self_parent # f.content.cause.self_parent

\* C8 as stated: every stored event E has last_ancestors[E.creator] = E.index
\* and, for every event F reachable from E through parent links, an entry for
\* F.creator that is at least F.index.
AncestorMonotone == AncOK(events)

\* C8 amended: an insertion into a graph where this holds keeps it, provided
\* the creator of every event of the new graph is in the peer list, every
\* self-parent is an event of the same creator and no two events share a
\* self-parent.
AncestorMonotoneKnown ==
    [][(AncOK(events) /\ Known(events', peer_list) /\ NoForks(events'))
          => AncOK(events')]_vars

\* C8 witness: a graph of known creators without forks holds an event whose
\* other-parent has an ancestor by another creator than the event's
AncestorMonotoneKnownWitness ==
    /\ Known(events, peer_list) /\ NoForks(events) /\ AncOK(events)
    /\ \E e \in events :
          /\ e.content.cause.other_parent # None
          /\ \E o \in events_get(events, TheOne(e.content.cause.other_parent)) :
                \E f \in ancestors(events, o) :
                    f # o /\ f.content.creator # e.content.creator

\* the call of Event::unpack that has returned, if its packed event is signed
\* by the creator it names
ValidUnpack ==
    /\ outcome.op = "unpack"
    /\ verify_signature(outcome.input.content.creator, outcome.input.signature,
                        serialise(outcome.input.content))
input_hash == Hash_from(serialise(outcome.input.content))
missing(opt_hash) == opt_hash # None /\ ~contains_key(events, TheOne(opt_hash))

\* C11: an event just created locally from a request, a response or an
\* observation, packed and unpacked against the same graph, comes back as
\* Ok(Some(E')) with E' equal to it in every field.
RoundTrip ==
    outcome.op = "pack_unpack" /\ outcome.input.content.cause.kind # "Initial"
        => outcome.r = Ok(Some(outcome.input))

\* C11 witness: the round trip of an event made from a request whose
\* other-parent has parents itself
RoundTripWitness ==
    /\ outcome.op = "pack_unpack"
    /\ outcome.input.content.cause.kind = "Request"
    /\ outcome.r.ok
    /\ \E o \in events_get(events, TheOne(outcome.input.content.cause.other_parent)) :
          o.index > 0

\* C12: Event::unpack of a correctly signed packed event whose hash is a key
\* of the graph returns Ok(None), and the graph never holds two events with
\* the same hash.
DuplicateDropped ==
    /\ ValidUnpack /\ contains_key(events, input_hash) => outcome.r = Ok(None)
    /\ \A e, f \in events : e.hash = f.hash => e = f

\* C12 witness: an event of the graph that has parents was handed to unpack again
DuplicateDroppedWitness ==
    /\ ValidUnpack
    /\ contains_key(events, input_hash)
    /\ outcome.input.content.cause.kind # "Initial"

\* C13: Event::unpack of a correctly signed packed event that is not in the
\* graph and whose self_parent or other_parent hash is not a key of the graph
\* returns Err(UnknownParent) and yields no event for the graph.
UnknownParentRejected ==
    /\ ValidUnpack
    /\ ~contains_key(events, input_hash)
    /\ \/ missing(outcome.input.content.cause.self_parent)
       \/ missing(outcome.input.content.cause.other_parent)
    => /\ outcome.r = Err("UnknownParent")
       /\ returned_event(outcome) = {}

\* C13 witness: the self_parent is in the graph and the other_parent is not
UnknownParentRejectedWitness ==
    /\ ValidUnpack
    /\ ~contains_key(events, input_hash)
    /\ ~missing(outcome.input.content.cause.self_parent)
    /\ missing(outcome.input.content.cause.other_parent)
    /\ ~outcome.r.ok

SeesOK(evs) == \A a, b \in evs : sees(a, b) <=> b \in ancestors(evs, a)

\* no two events share a self_parent
NoSharedSelfParent(evs) ==
    \A e, f \in evs :
        e # f /\ e.content.cause.self_parent # None
            => e.content.cause.self_parent # f.content.cause.self_parent

Made == events \cup returned_event(outcome)

NoDuplicateVote ==
    /\ outcome.op = "vote_for" /\ have_voted(events, outcome.input.payload)
          => outcome.r = Err("DuplicateVote") /\ returned_event(outcome) = {}
    /\ \A e, f \in our_events :
          e.content.cause.vote # None /\ e.content.cause.vote = f.content.cause.vote
              => e = f

\* C15 witness: the second vote_for for a payload has returned
NoDuplicateVoteWitness ==
    /\ outcome.op = "vote_for"
    /\ have_voted(events, outcome.input.payload)
    /\ ~outcome.r.ok

(***************************************************************************)
(* Claims about the pure functions                                         *)
(***************************************************************************)
KeyCalled == fin.fn = "ObservationKey_new" /\ fout.done
FindCalled == fin.fn = "find_interesting_content_for_event" /\ fout.done

single_expected(observation, mode) ==
    \/ observation.variant = "DkgMessage"
    \/ observation.variant = "OpaquePayload" /\ mode = "Single"

\* C16: the key of an observation is Single(hash, creator) exactly when the
\* observation is a DkgMessage, or an OpaquePayload under the configured mode
\* Single, and Supermajority(hash) for every other variant and mode;
\* consensus_mode() of the key returns that mode.
KeyModeMatchesVariant ==
    KeyCalled =>
        LET hash == ObservationHash(fin.observation)
        IN  IF single_expected(fin.observation, fin.mode)
            THEN /\ fout.value = [variant |-> "Single", hash |-> hash, peer |-> {fin.creator}]
                 /\ consensus_mode(fout.value) = "Single"
            ELSE /\ fout.value = [variant |-> "Supermajority", hash |-> hash, peer |-> {}]
                 /\ consensus_mode(fout.value) = "Supermajority"

\* a DkgMessage under the configured mode Supermajority got a Single key
KeyModeMatchesVariantWitness ==
    /\ KeyCalled
    /\ fin.observation.variant = "DkgMessage" /\ fin.mode = "Supermajority"
    /\ fout.value.variant = "Single"

Range(s) == {s[i] : i \in DOMAIN s}

\* the indices of the qualifying vote events of the builder event's creator for a key
own_votes(key) ==
    {e.index_by_creator :
        e \in {x \in Range(fin.unconsensused_events) :
                  /\ x.creator = builder_event.creator
                  /\ x.seen
                  /\ x.payload_key = Some(key)
                  /\ key \notin fin.is_already_interesting_content}}

Reorderings(s) == {t \in Orders(Range(s), Len(s)) : Len(t) = Len(s) /\ Distinct(t)}

\* C18: the returned list is the same whatever the order in which
\* unconsensused_events yields the same events.
OrderIndependent ==
    FindCalled =>
        \A t \in Reorderings(fin.unconsensused_events) :
            find_interesting_content_for_event(
                builder_event, t, fin.is_already_interesting_content,
                fin.is_interesting_payload) = fout.value

(***************************************************************************)
(* Claims about one call of MetaVote::next: the entries of the result up   *)
(* to the length of the parent are the updated entries of the parent, the  *)
(* entries after them were appended by the second loop.                    *)
(***************************************************************************)
Updated == {i \in 1..Len(last.parent) : i <= Len(result_of_last)}
Appended == {i \in 1..Len(result_of_last) : i > Len(last.parent)}

\* the votes counted for the round and step of a vote in the latest call
counted_for(vote) == counted(vote, last.others)
number_with(vs, S) == Cardinality({k \in 1..Len(vs) : vs[k].aux_value \in S})
more_than_two_thirds(n) == 3 * n > 2 * total_peers

\* C23: an entry is appended after an entry L only if L is undecided and
\* more than two thirds of the peers have an aux_value among the votes counted
\* for L's round and step; the returned vector ends at an entry for which
\* this is not so.
StepGuard ==
    Called =>
        /\ \A i \in Appended :
              LET L == result_of_last[i - 1]
              IN  /\ L.decision = None
                  /\ more_than_two_thirds(
                         number_with(counted_for(L), {Some(TRUE), Some(FALSE)}))
        /\ LET L == Last(result_of_last)
           IN  ~(/\ L.decision = None
                 /\ more_than_two_thirds(
                        number_with(counted_for(L), {Some(TRUE), Some(FALSE)})))

\* C23 witness: a call that appended an entry and whose result ends at an
\* undecided entry for which some, but not enough, aux values are counted
StepGuardWitness ==
    /\ Called
    /\ Appended # {}
    /\ Last(result_of_last).decision = None
    /\ number_with(counted_for(Last(result_of_last)), {Some(TRUE), Some(FALSE)}) >= 1

\* the vote and the counts of update_meta_vote just before calculate_new_decision
before_decision(meta_vote, counts, coin_tosses) ==
    LET m1 == calculate_new_estimates([mv |-> meta_vote, counts |-> counts],
                                      get(coin_tosses, meta_vote.round))
    IN  calculate_new_auxiliary_value(calculate_new_bin_values(m1), m1.mv.bin_values = {})

\* the entries of the parent that the latest call gave a decision
NewlyDecided == {i \in Updated : last.parent[i].decision = None /\ result_of_last[i].decision # None}

pre(i) ==
    before_decision(last.parent[i],
                    MetaVoteCounts_new(last.parent[i], last.others, total_peers),
                    last.coin_tosses)

own_rule(i, b) ==
    /\ b \in pre(i).mv.bin_values
    /\ more_than_two_thirds(IF b THEN pre(i).counts.aux_values_true
                            ELSE pre(i).counts.aux_values_false)

DecisionCollapse ==
    \A v \in Computed :
        \A i \in decided(v) :
            /\ v[i].estimates = v[i].decision
            /\ v[i].bin_values = v[i].decision
            /\ v[i].aux_value = v[i].decision

\* C25 witness: a call decided a vote that held both values as estimates just
\* before the decision
DecisionCollapseWitness ==
    /\ Called
    /\ \E i \in NewlyDecided : pre(i).mv.estimates = {TRUE, FALSE}

\* the round and step that follow a round and step
successor(round, step) ==
    CASE step = "ForcedTrue" -> <<round, "ForcedFalse">>
      [] step = "ForcedFalse" -> <<round, "GenuineFlip">>
      [] step = "GenuineFlip" -> <<round + 1, "ForcedTrue">>

\* C26: every vector starts at round 0 / ForcedTrue and each later entry is
\* at the round and step that follow those of the entry before it.
StepSuccession ==
    \A v \in Computed :
        /\ v # <<>> => v[1].round = 0 /\ v[1].step = "ForcedTrue"
        /\ \A i \in 2..Len(v) :
              <<v[i].round, v[i].step>> = successor(v[i - 1].round, v[i - 1].step)

\* C26 witness: a vector that has gone through the three steps of round 0
\* into round 1
StepSuccessionWitness ==
    \E v \in Computed : Len(v) = 4 /\ v[3].step = "GenuineFlip" /\ v[4].round = 1

\* the numbers of aux values true and false among the votes counted for a vote
aux_true(L) == number_with(counted_for(L), {Some(TRUE)})
aux_false(L) == number_with(counted_for(L), {Some(FALSE)})

\* the entries the latest call appended after an entry at the given step
AppendedAfter(step) == {i \in Appended : result_of_last[i - 1].step = step}

\* C27: an entry appended after ForcedTrue has estimates {false} if a
\* supermajority of the counted aux values are false, else {true} if no
\* supermajority of them are true, else the estimates of the entry before it;
\* an entry appended after ForcedFalse has {true} on a supermajority of true,
\* else {false} if no supermajority are false, else the estimates of the
\* entry before it; both have empty bin_values and no aux_value.
ForcedStepTransitions ==
    Called =>
        /\ \A i \in AppendedAfter("ForcedTrue") :
              LET L == result_of_last[i - 1]
              IN  /\ result_of_last[i].estimates =
                         IF more_than_two_thirds(aux_false(L)) THEN {FALSE}
                         ELSE IF ~more_than_two_thirds(aux_true(L)) THEN {TRUE}
                         ELSE L.estimates
                  /\ result_of_last[i].bin_values = {}
                  /\ result_of_last[i].aux_value = None
        /\ \A i \in AppendedAfter("ForcedFalse") :
              LET L == result_of_last[i - 1]
              IN  /\ result_of_last[i].estimates =
                         IF more_than_two_thirds(aux_true(L)) THEN {TRUE}
                         ELSE IF ~more_than_two_thirds(aux_false(L)) THEN {FALSE}
                         ELSE L.estimates
                  /\ result_of_last[i].bin_values = {}
                  /\ result_of_last[i].aux_value = None

\* C27 witness: an entry was appended after a ForcedTrue entry that held both
\* estimates, on a supermajority of aux values false
ForcedStepTransitionsWitness ==
    /\ Called
    /\ \E i \in AppendedAfter("ForcedTrue") :
          /\ more_than_two_thirds(aux_false(result_of_last[i - 1]))
          /\ result_of_last[i - 1].estimates = {TRUE, FALSE}
          /\ result_of_last[i].estimates = {FALSE}

\* C28: an entry appended after GenuineFlip of round r has estimates {true} if
\* a supermajority of the counted aux values are true, else {false} if a
\* supermajority are false, else the coin toss of round r if coin_tosses has
\* it, else none.
GenuineFlipTransition ==
    Called =>
        \A i \in AppendedAfter("GenuineFlip") :
            LET L == result_of_last[i - 1]
            IN  result_of_last[i].estimates =
                    IF more_than_two_thirds(aux_true(L)) THEN {TRUE}
                    ELSE IF more_than_two_thirds(aux_false(L)) THEN {FALSE}
                    ELSE IF L.round \in DOMAIN last.coin_tosses
                    THEN {last.coin_tosses[L.round]}
                    ELSE {}

\* C28 witness: an entry appended after GenuineFlip took the coin toss, which
\* was not among the estimates before
GenuineFlipTransitionWitness ==
    /\ Called
    /\ \E i \in AppendedAfter("GenuineFlip") :
          LET L == result_of_last[i - 1]
          IN  /\ ~more_than_two_thirds(aux_true(L)) /\ ~more_than_two_thirds(aux_false(L))
              /\ L.round \in DOMAIN last.coin_tosses
              /\ last.coin_tosses[L.round] \notin L.estimates
              /\ result_of_last[i].estimates = {last.coin_tosses[L.round]}

\* C29 as stated: an update sets the aux_value of an entry only when its
\* bin_values goes from empty to non-empty, to b when bin_values is {b} and
\* to true when it is {true, false}; an aux_value that is set is not changed.
AuxSetOnce ==
    Called =>
        \A i \in Updated :
            LET p == last.parent[i]
                r == result_of_last[i]
            IN  /\ (p.aux_value = None /\ r.aux_value # None) =>
                       /\ p.bin_values = {} /\ r.bin_values # {}
                       /\ r.aux_value = IF r.bin_values = {FALSE} THEN Some(FALSE)
                                        ELSE Some(TRUE)
                /\ p.aux_value # None => r.aux_value = p.aux_value

\* C29 amended: the same for the updates that leave the entry undecided; the
\* update that decides an entry sets its aux_value to the decision, whatever
\* it was.
AuxSetOnceUndecided ==
    Called =>
        \A i \in Updated :
            LET p == last.parent[i]
                r == result_of_last[i]
            IN  /\ (p.aux_value = None /\ r.aux_value # None /\ r.decision = None) =>
                       /\ p.bin_values = {} /\ r.bin_values # {}
                       /\ r.aux_value = IF r.bin_values = {FALSE} THEN Some(FALSE)
                                        ELSE Some(TRUE)
                /\ (p.aux_value # None /\ (r.decision = None \/ p.decision # None))
                       => r.aux_value = p.aux_value
                /\ r.decision # None => r.aux_value = r.decision

\* C29 witness: in one call an undecided entry kept its aux_value false while
\* true joined its bin_values
AuxSetOnceUndecidedWitness ==
    /\ Called
    /\ \E i \in Updated :
          /\ last.parent[i].aux_value = Some(FALSE)
          /\ last.parent[i].bin_values = {FALSE}
          /\ result_of_last[i].bin_values = {TRUE, FALSE}
          /\ result_of_last[i].decision = None

\* how many of the votes counted for a vote hold b in their estimates
estimates_with(L, b) ==
    Cardinality({k \in 1..Len(counted_for(L)) : b \in counted_for(L)[k].estimates})

MaliceCompared == fin.fn = "Malice" /\ fout.done

\* C22: two Unprovable malices are equal, neither is less than the other,
\* they serialise to the same bytes and so have the same hash, whichever
\* UnprovableMalice each holds; the serialised form deserialises to a malice
\* equal to the original.
UnprovableIndistinguishable ==
    (/\ MaliceCompared
     /\ fin.malice1.variant = "Unprovable"
     /\ fin.malice2.variant = "Unprovable") =>
        /\ fout.value.eq
        /\ fout.value.cmp = 0
        /\ fout.value.hash1 = fout.value.hash2
        /\ fout.value.after.ok
        /\ Malice_eq(fout.value.after.value[1], fin.malice1)

\* C22 witness: Unprovable(Spam) compared with Unprovable(Unspecified), and
\* read back as Unprovable(Unspecified)
UnprovableIndistinguishableWitness ==
    /\ MaliceCompared
    /\ fin.malice1 = [variant |-> "Unprovable", fields |-> <<Spam>>, boxed |-> <<>>]
    /\ fin.malice2 = [variant |-> "Unprovable", fields |-> <<Unspecified>>, boxed |-> <<>>]
    /\ fout.value.after.value[1].fields = <<Unspecified>>

\* the entries of the parent that the latest call updated from undecided
UpdatedUndecided == {i \in Updated : last.parent[i].decision = None}

at_least_a_third(n) == 3 * n >= total_peers

\* how many of the votes counted for a parent entry hold v in their estimates
holding(p, v) ==
    Cardinality({k \in 1..Len(counted_for(p)) : v \in counted_for(p)[k].estimates})

\* the estimates the rule of C31 gives an entry of the parent
estimates_by_rule(p) ==
    IF p.estimates = {}
    THEN IF p.round \in DOMAIN last.coin_tosses THEN {last.coin_tosses[p.round]} ELSE {}
    ELSE p.estimates \cup {v \in BOOLEAN : at_least_a_third(holding(p, v))}

\* C31: an update of an undecided entry turns empty estimates into the coin
\* toss of the entry's round if coin_tosses has it and leaves them empty
\* otherwise; to non-empty estimates it adds the values that at least a third
\* of the peers hold in their estimates among the counted votes, and nothing
\* else.  The estimates are those before a decision collapses them.
EstimatesRule ==
    Called =>
        \A i \in UpdatedUndecided :
            /\ pre(i).mv.estimates = estimates_by_rule(last.parent[i])
            /\ result_of_last[i].decision = None =>
                   result_of_last[i].estimates = estimates_by_rule(last.parent[i])

\* C31 witness: one update seeded empty estimates with the coin toss of round 1
\* while more than a third of the peers held the other value
EstimatesRuleWitness ==
    /\ Called
    /\ \E i \in UpdatedUndecided :
          /\ last.parent[i].estimates = {}
          /\ result_of_last[i].decision = None
          /\ result_of_last[i].estimates = {TRUE}
          /\ at_least_a_third(holding(last.parent[i], FALSE))

\* the event a call has just returned, when it is not an initial one and its
\* parents are in the graph
NewNonInitial ==
    {e \in returned_event(outcome) :
        /\ e.content.cause.kind # "Initial"
        /\ ~missing(e.content.cause.self_parent)
        /\ ~missing(e.content.cause.other_parent)}
self_parent_of(e) == TheOne(events_get(events, TheOne(e.content.cause.self_parent)))
other_parent_of(e) ==
    IF e.content.cause.other_parent = None THEN {}
    ELSE events_get(events, TheOne(e.content.cause.other_parent))

\* the entries of the parents for peer p: the self-parent's, and the
\* other parent's when p is in the peer list
parent_entries(e, p) ==
    {self_parent_of(e).last_ancestors[q] : q \in {p} \cap DOMAIN self_parent_of(e).last_ancestors}
    \cup UNION {{o.last_ancestors[q] : q \in {p} \cap peer_list \cap DOMAIN o.last_ancestors} :
                   o \in other_parent_of(e)}

\* C32: the last_ancestors of a new non-initial event whose parents are in
\* the graph map its creator to its index and every other peer to the
\* greatest of the self-parent's entry and, for a peer of the peer list, the
\* other parent's entry; a peer without any such entry has none.
LastAncestorsRule ==
    \A e \in NewNonInitial :
        /\ DOMAIN e.last_ancestors =
              {e.content.creator} \cup {p \in EvPeers : parent_entries(e, p) # {}}
        /\ e.last_ancestors[e.content.creator] = e.index
        /\ \A p \in DOMAIN e.last_ancestors \ {e.content.creator} :
              e.last_ancestors[p] = MaxOf(parent_entries(e, p))

\* C32 witness: the other parent has an entry for a peer that is not in the
\* peer list and the self-parent has none, so the new event has none; for
\* another peer the other parent's entry is taken
LastAncestorsRuleWitness ==
    \E e \in NewNonInitial : \E o \in other_parent_of(e) :
        /\ \E p \in DOMAIN o.last_ancestors \ peer_list :
              p \notin DOMAIN e.last_ancestors
        /\ \E p \in (DOMAIN o.last_ancestors \cap peer_list) \ {e.content.creator} :
              /\ p \notin DOMAIN self_parent_of(e).last_ancestors
              /\ e.last_ancestors[p] = o.last_ancestors[p]

\* a call of Event::new for a cause with a parent hash that is not in the graph
LocalWithMissingParent ==
    /\ outcome.op \in {"new", "new_invalid"}
    /\ \/ missing(outcome.input.self_parent)
       \/ missing(outcome.input.other_parent)

\* C33: a local event created from a request, a response or an observation
\* whose self_parent or other_parent hash is not in the graph is reported as
\* an invalid event: the call panics in a testing build, and in any other
\* build the event returned has index 0 and no last_ancestors instead of
\* computed ones, and is not an event for the graph.
InvalidLocalEvent ==
    LocalWithMissingParent =>
        /\ outcome.op = "new_invalid"
        /\ returned_event(outcome) = {}
        /\ \/ outcome.r = Panic
           \/ /\ outcome.r.ok
              /\ \A e \in outcome.r.value : e.index = 0 /\ e.last_ancestors = <<>>

\* C33 witness: a request whose self-parent, of index 1, is in the graph and
\* whose other parent is not, in a build that does not panic
InvalidLocalEventWitness ==
    /\ LocalWithMissingParent
    /\ outcome.input.kind = "Request"
    /\ ~missing(outcome.input.self_parent)
    /\ \E sp \in events_get(events, TheOne(outcome.input.self_parent)) : sp.index = 1
    /\ outcome.r.ok

\* the keys of the unconsensused events that are descendants of the builder
\* event, not already interesting content and interesting payloads
qualifying_keys ==
    {k \in TestKeys :
        /\ \E e \in Range(fin.unconsensused_events) : e.seen /\ e.payload_key = Some(k)
        /\ k \notin fin.is_already_interesting_content
        /\ k \in fin.is_interesting_payload}

\* the payload keys of all the unconsensused events
carried_keys == UNION {e.payload_key : e \in Range(fin.unconsensused_events)}

\* C34: a key is in the list returned by find_interesting_content_for_event if
\* and only if an unconsensused event that is a descendant of the builder
\* event carries it, it is not already interesting content and it is an
\* interesting payload; the list is empty when every key is already
\* interesting or no key is interesting.
InterestingFilter ==
    FindCalled =>
        /\ Range(fout.value) = qualifying_keys
        /\ (carried_keys \subseteq fin.is_already_interesting_content
               \/ carried_keys \cap fin.is_interesting_payload = {})
              => fout.value = <<>>

\* C34 witness: of three events with three keys that the builder event has
\* as descendants, one key is not interesting and two are returned
InterestingFilterWitness ==
    /\ FindCalled
    /\ Cardinality(carried_keys) = 3
    /\ \A e \in Range(fin.unconsensused_events) : e.seen
    /\ carried_keys \ fin.is_interesting_payload # {}
    /\ Len(fout.value) = 2

\* C36: the list returned by find_interesting_content_for_event holds each
\* key at most once, however many unconsensused events carry it.
KeysAtMostOnce ==
    FindCalled => \A i, j \in 1..Len(fout.value) : fout.value[i] = fout.value[j] => i = j

\* C36 witness: three events, of the builder's creator and of another peer,
\* carry the one key that is returned
KeysAtMostOnceWitness ==
    /\ FindCalled
    /\ fout.value = <<Supermajority(1)>>
    /\ Len(fin.unconsensused_events) = 3
    /\ \A e \in Range(fin.unconsensused_events) : e.seen /\ e.payload_key = Some(Supermajority(1))
    /\ \E e, f \in Range(fin.unconsensused_events) : e.creator = 0 /\ f.creator = 3

CmpCalled == fin.fn = "consistent_cmp" /\ fout.done

\* C35: consistent_cmp is a total order on the keys, Equal only for identical
\* keys, and another peer, whose peer list gives other peer indices to the
\* same ids, orders its keys for the same payloads and creators the same way.
ConsistentAmongNodes ==
    CmpCalled =>
        \A i, j, k \in 1..3 :
            /\ fout.value.ours[i, j] = 0 - fout.value.ours[j, i]
            /\ (fout.value.ours[i, j] <= 0 /\ fout.value.ours[j, k] <= 0)
                  => fout.value.ours[i, k] <= 0
            /\ fout.value.ours[i, j] = 0 => fin.keys[i] = fin.keys[j]
            /\ fout.value.theirs[i, j] = fout.value.ours[i, j]

\* C35 witness: two Single keys with one hash that our peer orders against
\* the order of their peer indices, and that the other peer, where the
\* peer indices are the other way round, orders as our peer does
ConsistentAmongNodesWitness ==
    /\ CmpCalled
    /\ fin.keys[1].variant = "Single" /\ fin.keys[2].variant = "Single"
    /\ fin.keys[1].hash = fin.keys[2].hash
    /\ TheOne(fin.keys[1].peer) < TheOne(fin.keys[2].peer)
    /\ TheOne(at_peer(fin.keys[1], fin.ours, fin.theirs).peer)
          > TheOne(at_peer(fin.keys[2], fin.ours, fin.theirs).peer)
    /\ fout.value.ours[1, 2] = 1
    /\ fout.value.theirs[1, 2] = 1

AuxAmongBinValues ==
    \A v \in Computed :
        \A i \in 1..Len(v) : v[i].aux_value \subseteq v[i].bin_values

AuxAmongBinValuesWitness ==
    /\ Called
    /\ \E i \in UpdatedUndecided :
          /\ last.parent[i].bin_values = {} /\ last.parent[i].aux_value = None
          /\ result_of_last[i].aux_value = Some(FALSE)
          /\ result_of_last[i].bin_values = {FALSE}
    /\ \E j \in 1..Len(result_of_last) :
          result_of_last[j].bin_values = {} /\ result_of_last[j].aux_value = None

in_queue(id) == \E p \in NetPeers : \E k \in 1..Len(msg_queue[p]) : msg_queue[p][k].id = id
times_handled(id) == Cardinality({k \in 1..Len(handled) : handled[k].id = id})

\* a message is handled by the peer it was sent to, not before its
\* deliver_after step, and once
HandledOnceWhenDue ==
    \A k \in 1..Len(handled) :
        /\ handled[k].peer = posted[handled[k].id].dst
        /\ handled[k].step >= handled[k].deliver_after
        /\ times_handled(handled[k].id) = 1

\* the messages in a queue are in the order in which they were sent
QueueInOrder ==
    \A p \in NetPeers : \A j, k \in 1..Len(msg_queue[p]) :
        j < k => msg_queue[p][j].id < msg_queue[p][k].id

\* a message sent to a peer that was not running is neither queued nor
\* handled; any other message is in the queue of its peer until it is handled
DroppedOrKept ==
    \A i \in 1..Len(posted) :
        IF posted[i].to_running
        THEN in_queue(i) = (times_handled(i) = 0)
        ELSE ~in_queue(i) /\ times_handled(i) = 0

\* C38 as stated: a message with deliver_after = d is handled once, by its
\* peer, at the first LocalStep whose step is >= d and at which the peer is
\* running, and never before; so after a LocalStep no message that was due
\* at its step is in the queue of a peer that was running.  The messages not
\* yet due stay in the queue in order; a message to a peer that is not
\* running when it is sent is dropped.
DeliveredAtFirstDueStep ==
    /\ HandledOnceWhenDue
    /\ \A p \in stepped : \A k \in 1..Len(msg_queue[p]) :
          msg_queue[p][k].deliver_after > local_step - 1
    /\ QueueInOrder
    /\ DroppedOrKept

\* C38 amended: the message is handled at the first call of handle_messages
\* for its peer that follows its queuing and has a step >= d: no call at
\* which it was due has left it in the queue.
DeliveredAtNextDueTurn ==
    /\ HandledOnceWhenDue
    /\ \A p \in NetPeers : \A k \in 1..Len(msg_queue[p]) : msg_queue[p][k].passed = 0
    /\ QueueInOrder
    /\ DroppedOrKept

\* C38 witness: a peer has handled a message and left in its queue, in order,
\* two messages that were not due; a message to a peer that is not running
\* has been dropped; and a message queued after its peer's turn, due at the
\* step of the latest LocalStep, waits for the next one
DeliveredAtNextDueTurnWitness ==
    /\ \E k \in 1..Len(handled) : handled[k].step > handled[k].deliver_after
    /\ \E i \in 1..Len(posted) : ~posted[i].to_running
    /\ \E p \in stepped : \E k \in 1..Len(msg_queue[p]) :
          msg_queue[p][k].deliver_after = local_step - 1

====
